---------------------------- MODULE Spec2Model ----------------------------
(***************************************************************************)
(* Variational analysis of disk packings: the contact-graph validator,     *)
(* the contact Jacobian, the rolling space, the Hessian classification and *)
(* the analysis pipeline of src/services.                                  *)
(*                                                                         *)
(* Numbers.  Lengths and coordinates are fixed-point integers in units of  *)
(* 1/Scale (a center (2, 0) is <<2000, 0>>); a unit vector component is an *)
(* integer in -Scale..Scale.  Eigenvalues are integers in units of 1e-11,  *)
(* so that both thresholds of the Hessian engine (1e-10 and 1e-6) are      *)
(* whole numbers.  Indices are 0-based as in the source; a TLA+ sequence    *)
(* holds disk i at position i + 1.                                         *)
(*                                                                         *)
(* Library calls.  The eigen-decompositions are computed by the ml-matrix  *)
(* library, which is not part of the repository: what the library returns  *)
(* is an input of the step that calls it, drawn from a bounded set.        *)
(***************************************************************************)
EXTENDS Integers, Sequences, FiniteSets, TLC

VARIABLES
    catalogCache,     \* _catalogCache: <<>> (null) or <<catalog>>
    pc,               \* position inside analyzeConfiguration
    config,           \* the Configuration being analysed: <<>> or <<c>>
    graphValidation,  \* <<>> or <<GraphValidation>>
    constraints,      \* <<>> or <<ConstraintData>>
    perimeter,        \* <<>> or <<PerimeterResult>>
    hessian,          \* <<>> or <<HessianResult>>
    summary,          \* <<>> or <<summary lines>>
    error,            \* <<>> or <<the Error thrown out of analyzeConfiguration>>
    lib,              \* what the libraries answered to the call in progress
    first,            \* <<>> or <<an analysis whose result the caller has kept>>
    ret,              \* <<>> or <<the last direct call of an exported function>>
    hook              \* a component that calls useAnalysis: its state and its runs

vars == <<catalogCache, pc, config, graphValidation, constraints, perimeter,
          hessian, summary, error, lib, first, ret, hook>>

----------------------------------------------------------------------------
(* Bounds of the model *)

\* disks of an exhaustively enumerated contact graph
MaxN == 3
\* contacts plus lattice contacts of an exhaustively enumerated graph
MaxEdges == 2
\* disks of a dense graph (complete graph minus a few edges)
MaxCore == 8
\* edges removed from a complete graph
MaxDrop == 2
\* disks of an exhaustively enumerated analysis input
MaxAnalysisN == 2
\* the largest number of rows and of columns of a matrix handed to rollingSpaceBasis
MaxMatrix == 2
\* the largest number of points handed to the perimeter functions directly
MaxPoints == 4
\* the largest matrix handed to intrinsicSpectrum directly
MaxSpectrum == 3
\* disks of a configuration whose ambient Hessian is assembled
MaxAmbientN == 3
\* renders of the component with a configName that differs from the last one
MaxRenders == 3

----------------------------------------------------------------------------
(* Program constants *)

\* fixed-point denominator of lengths and unit vectors
Scale == 1000
\* kissing number of the plane, contactGraphs.ts
MaxDegree == 6
\* intrinsicSpectrum's tolerance 1e-10, in units of 1e-11
SpectrumTolerance == 10
\* computeHessian's negativeTolerance 1e-6, in units of 1e-11
NegativeTolerance == 100000

----------------------------------------------------------------------------
(* Arithmetic *)

Abs(x) == IF x < 0 THEN -x ELSE x

\* a / b for b > 0, rounded to the nearest integer, symmetric in the sign of a
RoundDiv(a, b) ==
    IF a >= 0 THEN (2 * a + b) \div (2 * b)
    ELSE -((2 * (-a) + b) \div (2 * b))

RECURSIVE SqrtSearch(_, _, _)
\* the r with lo <= r < hi and r * r <= x < (r + 1) * (r + 1)
SqrtSearch(x, lo, hi) ==
    IF hi - lo <= 1 THEN lo
    ELSE LET mid == (lo + hi) \div 2
         IN  IF mid * mid <= x THEN SqrtSearch(x, mid, hi)
             ELSE SqrtSearch(x, lo, mid)

\* Math.sqrt on a fixed-point square: the nearest integer to the square root
Sqrt(x) ==
    LET r == SqrtSearch(x, 0, 46340)
    IN  IF x - r * r > r THEN r + 1 ELSE r

Range(s) == {s[k] : k \in 1..Len(s)}

Values(f) == {f[k] : k \in DOMAIN f}

SeqsUpTo(S, len) == UNION {[1..k -> S] : k \in 0..len}

RECURSIVE SubsetsUpTo(_, _)
SubsetsUpTo(S, k) ==
    IF k = 0 THEN {{}}
    ELSE LET P == SubsetsUpTo(S, k - 1)
         IN  P \cup {T \cup {e} : T \in P, e \in S}

Some(x) == <<x>>
None == <<>>

----------------------------------------------------------------------------
(* Configuration model: types/index.ts *)

createConfiguration(positions, contacts, radius, latticeContacts, latticeShifts) ==
    [n               |-> Len(positions),
     positions       |-> positions,
     radii           |-> [k \in 1..Len(positions) |-> radius],
     contacts        |-> contacts,
     latticeContacts |-> latticeContacts,
     latticeShifts   |-> latticeShifts]

----------------------------------------------------------------------------
(* Graph validator: services/contactGraphs.ts *)

\* a message of the validator: its template and the numbers interpolated in it
Message(kind, a, b, c) == [kind |-> kind, a |-> a, b |-> b, c |-> c]

\* the least element of a set of positions, 0 for the empty set: where a loop
\* that returns at its first hit stops
First(S) == IF S = {} THEN 0 ELSE CHOOSE k \in S : \A j \in S : k <= j

RECURSIVE Dedupe(_, _, _)
\* a Set filled from xs[k..]: first occurrences, in insertion order
Dedupe(xs, k, out) ==
    IF k > Len(xs) THEN out
    ELSE IF xs[k] \in Range(out) THEN Dedupe(xs, k + 1, out)
    ELSE Dedupe(xs, k + 1, Append(out, xs[k]))

\* adj after the loop adj.get(u)?.add(v); adj.get(v)?.add(u): the Set of disk
\* i holds the other end of every contact at i, in the order of the contacts
buildAdjacencyList(n, contacts) ==
    [i \in 0..(n - 1) |->
        LET at == SelectSeq(contacts, LAMBDA e : e[1] = i \/ e[2] = i)
        IN  Dedupe([k \in 1..Len(at) |-> IF at[k][1] = i THEN at[k][2] ELSE at[k][1]],
                   1, <<>>)]

\* the adjacency list without adj.get(v)?.add(u)
BuildAdjacencyListOneWay(n, contacts) ==
    [i \in 0..(n - 1) |->
        LET at == SelectSeq(contacts, LAMBDA e : e[1] = i)
        IN  Dedupe([k \in 1..Len(at) |-> at[k][2]], 1, <<>>)]

RECURSIVE VisitNeighbors(_, _, _, _)
\* the inner for-loop of the traversal: <<queue, visited>> after neighbors[k..]
VisitNeighbors(neighbors, k, queue, visited) ==
    IF k > Len(neighbors) THEN <<queue, visited>>
    ELSE IF neighbors[k] \notin visited
         THEN VisitNeighbors(neighbors, k + 1, Append(queue, neighbors[k]),
                             visited \cup {neighbors[k]})
         ELSE VisitNeighbors(neighbors, k + 1, queue, visited)

RECURSIVE Traverse(_, _, _)
\* the while-loop of the traversal: the visited set when the queue is empty
Traverse(adj, queue, visited) ==
    IF queue = <<>> THEN visited
    ELSE LET node == Head(queue)
             neighbors == IF node \in DOMAIN adj THEN adj[node] ELSE <<>>
             next == VisitNeighbors(neighbors, 1, Tail(queue), visited)
         IN  Traverse(adj, next[1], next[2])

\* the traversal over an adjacency list filled in one direction only
IsConnectedOneWay(n, contacts) ==
    IF n = 0 THEN TRUE
    ELSE IF n = 1 THEN TRUE
    ELSE IF Len(contacts) = 0 THEN n <= 1
    ELSE Cardinality(Traverse(BuildAdjacencyListOneWay(n, contacts), <<0>>, {0})) = n

isConnected(n, contacts) ==
    IF n = 0 THEN TRUE
    ELSE IF n = 1 THEN TRUE
    ELSE IF Len(contacts) = 0 THEN n <= 1
    ELSE Cardinality(Traverse(buildAdjacencyList(n, contacts), <<0>>, {0})) = n

\* degrees after the loop degrees[u]++; degrees[v]++ over the contacts
computeVertexDegrees(n, contacts) ==
    [i \in 0..(n - 1) |->
        Cardinality({k \in 1..Len(contacts) : contacts[k][1] = i})
            + Cardinality({k \in 1..Len(contacts) : contacts[k][2] = i})]
\* the index check without its lower bounds
IndexOutOfRangeNoLower(n, u, v) == u >= n \/ v >= n

\* the condition of the index check, contactGraphs.ts line 74
IndexOutOfRange(n, u, v) == u < 0 \/ u >= n \/ v < 0 \/ v >= n

\* the contact at which the index loop returns, or 0
IndexScan(n, all) ==
    First({k \in 1..Len(all) : IndexOutOfRange(n, all[k][1], all[k][2])})
\* a self-loop loop that keeps going and reports the last hit
SelfLoopScanLast(all) ==
    LET hits == {k \in 1..Len(all) : all[k][1] = all[k][2]}
    IN  IF hits = {} THEN 0 ELSE CHOOSE k \in hits : \A j \in hits : j <= k

\* the contact at which the self-loop loop returns, or 0
SelfLoopScan(all) == First({k \in 1..Len(all) : all[k][1] = all[k][2]})

\* the key of an undirected edge: `${min}-${max}`, one string per unordered
\* pair of non-negative indices
EdgeKey(u, v) == IF u < v THEN <<u, v>> ELSE <<v, u>>

\* the contact at which the duplicate loop returns, or 0: the first whose key
\* an earlier contact has put in edgeSet
DuplicateScan(all) ==
    First({k \in 1..Len(all) :
              \E j \in 1..(k - 1) :
                  EdgeKey(all[j][1], all[j][2]) = EdgeKey(all[k][1], all[k][2])})
\* a degree loop that rejects degree 6 as well
DegreeScanInclusive(n, degrees) ==
    LET over == {i \in 0..(n - 1) : degrees[i] >= MaxDegree}
    IN  IF over = {} THEN n ELSE CHOOSE i \in over : \A j \in over : i <= j

\* the vertex at which the degree loop returns, or n
DegreeScan(n, degrees) ==
    LET over == {i \in 0..(n - 1) : degrees[i] > MaxDegree}
    IN  IF over = {} THEN n ELSE CHOOSE i \in over : \A j \in over : i <= j

Invalid(actualEdges, message) ==
    [isValid |-> FALSE, expectedEdges |-> 0, actualEdges |-> actualEdges,
     message |-> message]
\* a final step that makes the edge count a condition of validity
ValidResultStrict(n, actualEdges) ==
    [isValid |-> actualEdges = 2 * n + 1,
     expectedEdges |-> 2 * n + 1,
     actualEdges |-> actualEdges,
     message |->
         IF actualEdges = 2 * n + 1
         THEN Message("Valid graph with expected edge count", 0, 0, 0)
         ELSE Message("Valid graph (edges, expected for rigidity)",
                      actualEdges, 2 * n + 1, 0)]

\* the record of a graph that passed every check; the edge count is reported only
ValidResult(n, actualEdges) ==
    LET expectedEdges == 2 * n + 1
    IN  [isValid |-> TRUE,
         expectedEdges |-> expectedEdges,
         actualEdges |-> actualEdges,
         message |->
             IF actualEdges = expectedEdges
             THEN Message("Valid graph with expected edge count", 0, 0, 0)
             ELSE Message("Valid graph (edges, expected for rigidity)",
                          actualEdges, expectedEdges, 0)]

checkGraphValidity(c) ==
    LET n == c.n
        allContacts == c.contacts \o c.latticeContacts
        actualEdges == Len(allContacts)
        badIndex == IndexScan(n, allContacts)
        selfLoop == SelfLoopScan(allContacts)
        duplicate == DuplicateScan(allContacts)
    IN  IF badIndex # 0
        THEN Invalid(actualEdges,
                 Message("Invalid index in contact", allContacts[badIndex][1],
                         allContacts[badIndex][2], n - 1))
        ELSE IF selfLoop # 0
        THEN Invalid(actualEdges,
                 Message("Self-loop detected at vertex", allContacts[selfLoop][1], 0, 0))
        ELSE IF duplicate # 0
        THEN Invalid(actualEdges,
                 Message("Duplicate edge", allContacts[duplicate][1],
                         allContacts[duplicate][2], 0))
        ELSE IF ~isConnected(n, allContacts)
        THEN Invalid(actualEdges, Message("Graph is not connected", 0, 0, 0))
        ELSE LET degrees == computeVertexDegrees(n, allContacts)
                 over == DegreeScan(n, degrees)
             IN  IF over < n
                 THEN Invalid(actualEdges,
                          Message("Vertex has degree > 6", over, degrees[over], 0))
                 ELSE ValidResult(n, actualEdges)

----------------------------------------------------------------------------
(* Constraint builder: services/constraints.ts *)

NoError == [kind |-> "none", i |-> 0, j |-> 0]

\* new Error(`Disks ${i} and ${j} have coincident centers`)
CoincidentCenters(i, j) == [kind |-> "Disks have coincident centers", i |-> i, j |-> j]

\* positions[k] is undefined for k outside 0..n-1, and reading [0] of it raises
\* TypeError: Cannot read properties of undefined
UndefinedPosition == [kind |-> "TypeError: Cannot read properties of undefined",
                      i |-> 0, j |-> 0]

Returned(v) == [threw |-> FALSE, value |-> v, error |-> NoError]
Thrown(e) == [threw |-> TRUE, value |-> <<>>, error |-> e]

\* dist < 1e-15, on the square of the distance (units 1e-6): every non-zero
\* distance of the fixed-point grid is at least 1e-3
Coincident(dsq) == dsq = 0
\* a row with the two signs exchanged: +u at disk i and -u at disk j
ContactRowSwapped(cols, i, j, ux, uy) ==
    LET r0 == [k \in 1..cols |-> 0]
        r1 == [r0 EXCEPT ![2 * i + 1] = ux]
        r2 == [r1 EXCEPT ![2 * i + 2] = uy]
        r3 == [r2 EXCEPT ![2 * j + 1] = -ux]
    IN  [r3 EXCEPT ![2 * j + 2] = -uy]

\* the row of contact (i, j): four assignments on new Array(cols).fill(0)
ContactRow(cols, i, j, ux, uy) ==
    LET r0 == [k \in 1..cols |-> 0]
        r1 == [r0 EXCEPT ![2 * i + 1] = -ux]
        r2 == [r1 EXCEPT ![2 * i + 2] = -uy]
        r3 == [r2 EXCEPT ![2 * j + 1] = ux]
    IN  [r3 EXCEPT ![2 * j + 2] = uy]

RECURSIVE BuildRows(_, _, _)
\* the loop of buildContactMatrix from contact k on, A being the rows pushed so far
BuildRows(c, k, A) ==
    IF k > Len(c.contacts) THEN Returned(A)
    ELSE LET i == c.contacts[k][1]
             j == c.contacts[k][2]
         IN  IF j \notin 0..(c.n - 1) \/ i \notin 0..(c.n - 1)
             THEN Thrown(UndefinedPosition)
             ELSE LET dx == c.positions[j + 1][1] - c.positions[i + 1][1]
                      dy == c.positions[j + 1][2] - c.positions[i + 1][2]
                      dsq == dx * dx + dy * dy
                      dist == Sqrt(dsq)
                  IN  IF Coincident(dsq)
                      THEN Thrown(CoincidentCenters(i, j))
                      ELSE BuildRows(c, k + 1,
                               Append(A, ContactRow(2 * c.n, i, j,
                                                    RoundDiv(dx * Scale, dist),
                                                    RoundDiv(dy * Scale, dist))))

buildContactMatrix(c) == BuildRows(c, 1, <<>>)

\* The eigenvalues of A^T A as the library may return them, in units of
\* 1e-11: 0 for an eigenvalue of the kernel of A (rounding noise of 1e-16 or
\* less), 5e-11 for a genuine eigenvalue of a nearly dependent A, the tolerance
\* itself, an ordinary eigenvalue.  The symmetric solver lists them in
\* ascending order.
AtAEigenvalues == {0, 5, 10, 25000}

Ascending(s) == \A k \in 1..(Len(s) - 1) : s[k] <= s[k + 1]

RECURSIVE SumEvery(_, _)
\* row[k] + row[k + 2] + row[k + 4] + ...
SumEvery(row, k) == IF k > Len(row) THEN 0 ELSE row[k] + SumEvery(row, k + 2)

\* a lower bound on the dimension of the kernel of A, hence on the number of
\* zero eigenvalues of A^T A: the columns in excess of the rows, and the two
\* translations when the x-columns and the y-columns of every row sum to zero
KernelDim(A) ==
    LET rows == Len(A)
        cols == Len(A[1])
        translations ==
            IF cols >= 2 /\ \A r \in 1..rows : SumEvery(A[r], 1) = 0 /\ SumEvery(A[r], 2) = 0
            THEN 2 ELSE 0
    IN  IF cols - rows > translations THEN cols - rows ELSE translations

\* what eig.realEigenvalues may be for the matrix A
AtASpectra(A) ==
    {s \in [1..Len(A[1]) -> AtAEigenvalues] :
        Ascending(s) /\ \A k \in 1..KernelDim(A) : s[k] = 0}

\* the squared length of A z for the unit eigenvector z of column colIdx:
\* z^T (A^T A) z, the magnitude of its eigenvalue
ResidualSq(eigenvalues, colIdx) == Abs(eigenvalues[colIdx + 1])

\* an entry of the library's eigenvector matrix V
V(row, col) == [of |-> "V", row |-> row, col |-> col]

RECURSIVE NullScanInclusive(_, _, _)
\* a null loop that takes the tolerance itself for zero
NullScanInclusive(eigenvalues, i, nullIndices) ==
    IF i >= Len(eigenvalues) THEN nullIndices
    ELSE IF Abs(eigenvalues[i + 1]) <= SpectrumTolerance
         THEN NullScanInclusive(eigenvalues, i + 1, Append(nullIndices, i))
         ELSE NullScanInclusive(eigenvalues, i + 1, nullIndices)

RECURSIVE NullScan(_, _, _)
\* nullIndices after the loop from index i on (0-based)
NullScan(eigenvalues, i, nullIndices) ==
    IF i >= Len(eigenvalues) THEN nullIndices
    ELSE IF Abs(eigenvalues[i + 1]) < SpectrumTolerance
         THEN NullScan(eigenvalues, i + 1, Append(nullIndices, i))
         ELSE NullScan(eigenvalues, i + 1, nullIndices)

\* rollingSpaceBasis(A) with `eigenvalues` the library's eig.realEigenvalues
rollingSpaceBasis(A, eigenvalues) ==
    IF Len(A) = 0 THEN <<>>
    ELSE LET cols == Len(A[1])
             nullIndices == NullScan(eigenvalues, 0, <<>>)
         IN  IF Len(nullIndices) = 0
             THEN [row \in 1..cols |-> <<>>]
             ELSE [row \in 1..cols |->
                      [k \in 1..Len(nullIndices) |-> V(row - 1, nullIndices[k])]]

\* the columns of a matrix given by its rows
Columns(R) == IF Len(R) > 0 THEN Len(R[1]) ELSE 0

\* computeConstraints(config); the contact matrix is known not to throw here
computeConstraints(A, eigenvalues) ==
    LET rollingMatrix == rollingSpaceBasis(A, eigenvalues)
    IN  [contactMatrix |-> A,
         rollingMatrix |-> rollingMatrix,
         dimension     |-> IF Len(rollingMatrix) > 0 THEN Len(rollingMatrix[1]) ELSE 0]

----------------------------------------------------------------------------
(* Convex hull and perimeter: services/perimeter.ts *)

\* 2 * Math.PI in fixed point
TwoPi == 6283

\* the comparator of indexed.sort: a.x - b.x || a.y - b.y, negative when a
\* goes first; a point is <<x, y, i>>
HullOrder(a, b) == IF a[1] # b[1] THEN a[1] - b[1] ELSE a[2] - b[2]

RECURSIVE InsertSorted(_, _)
\* p inserted after every element that does not compare above it (stable)
InsertSorted(sorted, p) ==
    IF sorted = <<>> THEN <<p>>
    ELSE IF HullOrder(Head(sorted), p) <= 0
         THEN <<Head(sorted)>> \o InsertSorted(Tail(sorted), p)
         ELSE <<p>> \o sorted

RECURSIVE SortIndexed(_, _, _)
SortIndexed(indexed, k, sorted) ==
    IF k > Len(indexed) THEN sorted
    ELSE SortIndexed(indexed, k + 1, InsertSorted(sorted, indexed[k]))

cross(o, a, b) == (a[1] - o[1]) * (b[2] - o[2]) - (a[2] - o[2]) * (b[1] - o[1])

RECURSIVE PopRightTurns(_, _)
\* the while-loop of a half hull: pop while the turn is strictly to the right
\* (cross < -EPS with EPS = 1e-12, below the grid's resolution of 1e-6)
PopRightTurns(chain, p) ==
    IF Len(chain) >= 2 /\ cross(chain[Len(chain) - 1], chain[Len(chain)], p) < 0
    THEN PopRightTurns(SubSeq(chain, 1, Len(chain) - 1), p)
    ELSE chain

RECURSIVE HalfHull(_, _, _)
HalfHull(pts, k, chain) ==
    IF k > Len(pts) THEN chain
    ELSE HalfHull(pts, k + 1, Append(PopRightTurns(chain, pts[k]), pts[k]))

Reverse(s) == [k \in 1..Len(s) |-> s[Len(s) + 1 - k]]

convexHullIndices(points) ==
    LET n == Len(points)
    IN  IF n <= 1 THEN [k \in 1..n |-> k - 1]
        ELSE LET indexed == [k \in 1..n |-> <<points[k][1], points[k][2], k - 1>>]
                 sorted == SortIndexed(indexed, 1, <<>>)
                 lower == HalfHull(sorted, 1, <<>>)
                 upper == HalfHull(Reverse(sorted), 1, <<>>)
                 both == SubSeq(lower, 1, Len(lower) - 1)
                             \o SubSeq(upper, 1, Len(upper) - 1)
             IN  Dedupe([k \in 1..Len(both) |-> both[k][3]], 1, <<>>)

\* isCollinear: the second singular value of the centered points is below 1e-8
\* exactly when they have rank <= 1 at the grid's resolution, that is when
\* every pair of offsets from the first point has a zero cross product
isCollinear(points) ==
    IF Len(points) < 3 THEN TRUE
    ELSE \A a, b \in 2..Len(points) :
            cross(points[1], points[a], points[b]) = 0

DistSq(p, q) == (q[1] - p[1]) * (q[1] - p[1]) + (q[2] - p[2]) * (q[2] - p[2])

RECURSIVE MaxPairAdjacent(_, _, _, _, _)
\* a loop over the pairs of neighbours in hull only
MaxPairAdjacent(positions, hull, i, j, best) ==
    IF i >= Len(hull) THEN best
    ELSE LET dSq == DistSq(positions[hull[i] + 1], positions[hull[i + 1] + 1])
         IN  MaxPairAdjacent(positions, hull, i + 1, i + 2,
                             IF dSq > best[1] THEN <<dSq, hull[i], hull[i + 1]>> ELSE best)

RECURSIVE MaxPair(_, _, _, _, _)
\* the double loop over hull pairs i < j (1-based positions in hull), keeping
\* <<maxSq, endA, endB>> and replacing it on a strictly larger distance
MaxPair(positions, hull, i, j, best) ==
    IF i > Len(hull) THEN best
    ELSE IF j > Len(hull) THEN MaxPair(positions, hull, i + 1, i + 2, best)
    ELSE LET dSq == DistSq(positions[hull[i] + 1], positions[hull[j] + 1])
         IN  MaxPair(positions, hull, i, j + 1,
                     IF dSq > best[1] THEN <<dSq, hull[i], hull[j]>> ELSE best)

RECURSIVE HullLength(_, _, _, _)
HullLength(positions, hull, i, total) ==
    IF i > Len(hull) THEN total
    ELSE LET j == (i % Len(hull)) + 1
         IN  HullLength(positions, hull, i + 1,
                 total + Sqrt(DistSq(positions[hull[i] + 1], positions[hull[j] + 1])))

perimeterOfCenters(c) ==
    LET hull == convexHullIndices(c.positions)
    IN  IF Len(hull) <= 1 THEN 0
        ELSE IF isCollinear(c.positions)
        THEN 2 * Sqrt(MaxPair(c.positions, hull, 1, 2, <<0, 0, 0>>)[1])
        ELSE HullLength(c.positions, hull, 1, 0)

\* a perimeter that doubles the radius once the catalog has been loaded
perimeterOfDisksCached(c) ==
    perimeterOfCenters(c)
        + RoundDiv(TwoPi * (IF catalogCache = None THEN c.radii[1] ELSE 2 * c.radii[1]),
                   Scale)

perimeterOfDisks(c) ==
    perimeterOfCenters(c) + RoundDiv(TwoPi * c.radii[1], Scale)

\* grad with w * (ux, uy) subtracted at disk i and added at disk j
AddEdge(grad, i, j, ux, uy, w) ==
    LET g1 == [grad EXCEPT ![2 * i + 1] = @ - w * ux]
        g2 == [g1 EXCEPT ![2 * i + 2] = @ - w * uy]
        g3 == [g2 EXCEPT ![2 * j + 1] = @ + w * ux]
    IN  [g3 EXCEPT ![2 * j + 2] = @ + w * uy]

RECURSIVE HullGradientOpen(_, _, _, _)
\* a loop over the hull edges that leaves out the edge closing the cycle
HullGradientOpen(positions, hull, k, grad) ==
    IF k >= Len(hull) THEN grad
    ELSE LET i == hull[k]
             j == hull[k + 1]
             dx == positions[j + 1][1] - positions[i + 1][1]
             dy == positions[j + 1][2] - positions[i + 1][2]
             dsq == dx * dx + dy * dy
             dist == Sqrt(dsq)
         IN  IF Coincident(dsq) THEN HullGradientOpen(positions, hull, k + 1, grad)
             ELSE HullGradientOpen(positions, hull, k + 1,
                      AddEdge(grad, i, j, RoundDiv(dx * Scale, dist),
                              RoundDiv(dy * Scale, dist), 1))

RECURSIVE HullGradient(_, _, _, _)
HullGradient(positions, hull, k, grad) ==
    IF k > Len(hull) THEN grad
    ELSE LET i == hull[k]
             j == hull[(k % Len(hull)) + 1]
             dx == positions[j + 1][1] - positions[i + 1][1]
             dy == positions[j + 1][2] - positions[i + 1][2]
             dsq == dx * dx + dy * dy
             dist == Sqrt(dsq)
         IN  IF Coincident(dsq) THEN HullGradient(positions, hull, k + 1, grad)
             ELSE HullGradient(positions, hull, k + 1,
                      AddEdge(grad, i, j, RoundDiv(dx * Scale, dist),
                              RoundDiv(dy * Scale, dist), 1))

\* a gradient whose collinear branch moves the endpoints by u instead of 2u
perimeterGradientSingle(c) ==
    LET grad == [k \in 1..(2 * c.n) |-> 0]
        hull == convexHullIndices(c.positions)
    IN  IF Len(hull) <= 1 THEN grad
        ELSE IF isCollinear(c.positions)
        THEN LET best == MaxPair(c.positions, hull, 1, 2, <<0, 0, 0>>)
                 endA == best[2]
                 endB == best[3]
                 dist == Sqrt(best[1])
                 dx == c.positions[endB + 1][1] - c.positions[endA + 1][1]
                 dy == c.positions[endB + 1][2] - c.positions[endA + 1][2]
             IN  IF Coincident(best[1]) THEN grad
                 ELSE AddEdge(grad, endA, endB, RoundDiv(dx * Scale, dist),
                              RoundDiv(dy * Scale, dist), 1)
        ELSE HullGradient(c.positions, hull, 1, grad)

perimeterGradient(c) ==
    LET grad == [k \in 1..(2 * c.n) |-> 0]
        hull == convexHullIndices(c.positions)
    IN  IF Len(hull) <= 1 THEN grad
        ELSE IF isCollinear(c.positions)
        THEN LET best == MaxPair(c.positions, hull, 1, 2, <<0, 0, 0>>)
                 endA == best[2]
                 endB == best[3]
                 dist == Sqrt(best[1])
                 dx == c.positions[endB + 1][1] - c.positions[endA + 1][1]
                 dy == c.positions[endB + 1][2] - c.positions[endA + 1][2]
             IN  IF Coincident(best[1]) THEN grad
                 ELSE AddEdge(grad, endA, endB, RoundDiv(dx * Scale, dist),
                              RoundDiv(dy * Scale, dist), 2)
        ELSE HullGradient(c.positions, hull, 1, grad)

computePerimeter(c) ==
    [perimeter |-> perimeterOfDisks(c), gradient |-> perimeterGradient(c)]

----------------------------------------------------------------------------
(* Hessian engine: services/hessian.ts *)

\* The eigenvalues of the symmetrized H_roll as the library may return them,
\* in units of 1e-11: below, at and above -1e-6, noise of either sign that
\* the spectrum snaps to 0, an ordinary positive eigenvalue.  The symmetric
\* solver lists them in ascending order.
HessianEigenvalues == {-100001, -100000, -4, 7, 20000}

HessianSpectra(d) == {s \in [1..d -> HessianEigenvalues] : Ascending(s)}

\* eig.realEigenvalues of a d x d matrix in whatever order a decomposition may
\* list them: intrinsicSpectrum sorts them itself
RawSpectra(d) == [1..d -> HessianEigenvalues]

\* a finite entry of the library product Z^T H Z
HRollEntry(i, j) == [of |-> "ZtHZ", row |-> i, col |-> j]

\* Infinity, -Infinity or NaN
NonFinite == [of |-> "non-finite"]

\* isFinite(x)
isFinite(x) == x # NonFinite

\* entry (i, j) of projectToRoll(HTotal, R) = R^T HTotal R for a finite HTotal:
\* the sum over a, b of R[a][i] * HTotal[a][b] * R[b][j], which is not finite
\* as soon as column i or column j of R has an entry that is not (a product
\* with Infinity or NaN is Infinity or NaN, and so is any sum with it)
projectToRoll(R, i, j) ==
    IF \E row \in 1..Len(R) :
          \E k \in {i + 1, j + 1} \cap DOMAIN R[row] : ~isFinite(R[row][k])
    THEN NonFinite
    ELSE HRollEntry(i, j)

\* a validation that leaves the entry as it is
KeepEntry(x) == x

\* the number x itself, among entries that are otherwise library values
Number(x) == [of |-> "number", value |-> x]

\* if (!isFinite(HRoll[i][j])) HRoll[i][j] = 0
ClampEntry(x) == IF ~isFinite(x) THEN Number(0) ELSE x

\* eigVecMatrix.get(row, i): an entry of the library's eigenvector matrix,
\* whose column i is the eigenvector of eig.realEigenvalues[i]
EigenvectorEntry(row, i) == [of |-> "eigenvectorMatrix", row |-> row, col |-> i]

\* an array filled with row i of the library's matrix instead
EigenvectorRow(rows, i) == [col \in 1..rows |-> EigenvectorEntry(i, col - 1)]

\* the array col filled by the loop over the rows of column i
EigenvectorColumn(rows, i) == [row \in 1..rows |-> EigenvectorEntry(row - 1, i)]

RECURSIVE InsertIndex(_, _, _)
\* indices.sort((a, b) => eigenvalues[a] - eigenvalues[b]), one insertion of a
\* stable sort: i goes after every index whose eigenvalue is not larger
InsertIndex(sorted, i, eigenvalues) ==
    IF sorted = <<>> THEN <<i>>
    ELSE IF eigenvalues[Head(sorted) + 1] - eigenvalues[i + 1] <= 0
         THEN <<Head(sorted)>> \o InsertIndex(Tail(sorted), i, eigenvalues)
         ELSE <<i>> \o sorted

RECURSIVE SortIndices(_, _, _)
SortIndices(eigenvalues, i, sorted) ==
    IF i >= Len(eigenvalues) THEN sorted
    ELSE SortIndices(eigenvalues, i + 1, InsertIndex(sorted, i, eigenvalues))

\* intrinsicSpectrum(H) with `raw` the library's eig.realEigenvalues
intrinsicSpectrum(raw) ==
    LET eigenvalues == [k \in 1..Len(raw) |->
                           IF Abs(raw[k]) < SpectrumTolerance THEN 0 ELSE raw[k]]
        indices == SortIndices(eigenvalues, 0, <<>>)
    IN  [eigenvalues  |-> [k \in 1..Len(indices) |-> eigenvalues[indices[k] + 1]],
         eigenvectors |-> [k \in 1..Len(indices) |-> EigenvectorColumn(Len(raw), indices[k])]]

\* a filter that counts the tolerance itself
IsNegativeDirectionInclusive(v) == v <= -NegativeTolerance

\* the filter of the Morse index: v < -negativeTolerance
IsNegativeDirection(v) == v < -NegativeTolerance

RECURSIVE CountNegative(_, _)
\* eigenvalues.filter(...).length over eigenvalues[k..]
CountNegative(eigenvalues, k) ==
    IF k > Len(eigenvalues) THEN 0
    ELSE (IF IsNegativeDirection(eigenvalues[k]) THEN 1 ELSE 0)
             + CountNegative(eigenvalues, k + 1)

\* computeEdgeBlock(t, dist): M = (1/dist) (I - t t^T), t a unit vector in
\* thousandths and dist a length in thousandths
computeEdgeBlock(t, dist) ==
    <<<<RoundDiv(Scale * Scale - t[1] * t[1], dist), RoundDiv(-(t[1] * t[2]), dist)>>,
      <<RoundDiv(-(t[1] * t[2]), dist), RoundDiv(Scale * Scale - t[2] * t[2], dist)>>>>

\* an addBlock that leaves the blocks below the diagonal alone
addBlockUpper(H, block, row, col, sign) ==
    IF row > col THEN H
    ELSE [H EXCEPT ![2 * row + 1][2 * col + 1] = @ + sign * block[1][1],
                   ![2 * row + 1][2 * col + 2] = @ + sign * block[1][2],
                   ![2 * row + 2][2 * col + 1] = @ + sign * block[2][1],
                   ![2 * row + 2][2 * col + 2] = @ + sign * block[2][2]]

\* addBlock(H, block, row, col, sign): H with sign * block added at the 2 x 2
\* block of disks row, col
addBlock(H, block, row, col, sign) ==
    [H EXCEPT ![2 * row + 1][2 * col + 1] = @ + sign * block[1][1],
              ![2 * row + 1][2 * col + 2] = @ + sign * block[1][2],
              ![2 * row + 2][2 * col + 1] = @ + sign * block[2][1],
              ![2 * row + 2][2 * col + 2] = @ + sign * block[2][2]]

\* the four addBlock calls of an edge or contact between disks u and v
AddBlocks(H, block, u, v) ==
    addBlock(addBlock(addBlock(addBlock(H, block, u, u, 1), block, v, v, 1),
                      block, u, v, -1),
             block, v, u, -1)

\* Array.from({ length: dim }, () => new Array(dim).fill(0))
ZeroMatrix(dim) == [i \in 1..dim |-> [j \in 1..dim |-> 0]]

\* the edge block between the points p and q, dsq their squared distance
EdgeBlock(p, q, dsq) ==
    LET dist == Sqrt(dsq)
    IN  computeEdgeBlock(<<RoundDiv((q[1] - p[1]) * Scale, dist),
                           RoundDiv((q[2] - p[2]) * Scale, dist)>>, dist)

RECURSIVE EuclideanLoop(_, _, _, _)
\* the loop over the hull edges k, k + 1 (cyclically); an edge of length 0
\* is skipped
EuclideanLoop(positions, hull, k, H) ==
    IF k > Len(hull) THEN H
    ELSE LET u == hull[k]
             v == hull[(k % Len(hull)) + 1]
             dsq == DistSq(positions[u + 1], positions[v + 1])
         IN  IF Coincident(dsq) THEN EuclideanLoop(positions, hull, k + 1, H)
             ELSE EuclideanLoop(positions, hull, k + 1,
                      AddBlocks(H, EdgeBlock(positions[u + 1], positions[v + 1], dsq),
                                u, v))

\* block.map(r => r.map(v => 2 * v))
ScaledBlock(block) == [r \in 1..2 |-> [s \in 1..2 |-> 2 * block[r][s]]]

buildEuclideanHessian(c) ==
    LET H == ZeroMatrix(2 * c.n)
        hull == convexHullIndices(c.positions)
    IN  IF isCollinear(c.positions)
        THEN LET best == MaxPair(c.positions, hull, 1, 2, <<0, 0, 0>>)
                 endA == best[2]
                 endB == best[3]
             IN  IF Coincident(best[1]) THEN H
                 ELSE AddBlocks(H, ScaledBlock(EdgeBlock(c.positions[endA + 1],
                                                         c.positions[endB + 1],
                                                         best[1])),
                                endA, endB)
        ELSE EuclideanLoop(c.positions, hull, 1, H)

\* the block K = -(lambda / 2) (I - u u^T) of a contact, u in thousandths
ContactBlock(ux, uy, lam) ==
    <<<<RoundDiv(-lam * RoundDiv(Scale * Scale - ux * ux, Scale), 2 * Scale),
        RoundDiv(-lam * RoundDiv(-(ux * uy), Scale), 2 * Scale)>>,
      <<RoundDiv(-lam * RoundDiv(-(ux * uy), Scale), 2 * Scale),
        RoundDiv(-lam * RoundDiv(Scale * Scale - uy * uy, Scale), 2 * Scale)>>>>

RECURSIVE GeometricLoop(_, _, _, _)
\* config.contacts.forEach(([i, j], idx) => ...), idx = k - 1
GeometricLoop(c, lambdas, k, H) ==
    IF k > Len(c.contacts) THEN H
    ELSE LET i == c.contacts[k][1]
             j == c.contacts[k][2]
             dsq == DistSq(c.positions[i + 1], c.positions[j + 1])
             dist == Sqrt(dsq)
             ux == RoundDiv((c.positions[j + 1][1] - c.positions[i + 1][1]) * Scale, dist)
             uy == RoundDiv((c.positions[j + 1][2] - c.positions[i + 1][2]) * Scale, dist)
         IN  IF Coincident(dsq) THEN GeometricLoop(c, lambdas, k + 1, H)
             ELSE GeometricLoop(c, lambdas, k + 1,
                                AddBlocks(H, ContactBlock(ux, uy, lambdas[k]), i, j))

buildGeometricHessian(c, lambdas) == GeometricLoop(c, lambdas, 1, ZeroMatrix(2 * c.n))

\* HTotal[i][j] = HEucl[i][j] + HGeom[i][j]
SumMatrix(HEucl, HGeom) ==
    [i \in 1..Len(HEucl) |-> [j \in 1..Len(HEucl) |-> HEucl[i][j] + HGeom[i][j]]]

\* the multipliers the least-squares solver may return for one contact, in
\* thousandths
Multipliers == {-2000, 0, 1000}

\* the assembly of the ambient Hessian in computeHessian, `lambdas` the answer
\* of solveLagrangeMultipliers
ambientHessian(c, lambdas) ==
    LET HEucl == buildEuclideanHessian(c)
        A == buildContactMatrix(c)
    IN  IF A.threw THEN Thrown(A.error)
        ELSE LET HGeom == buildGeometricHessian(c, lambdas)
             IN  Returned([HEucl |-> HEucl, HGeom |-> HGeom,
                           HTotal |-> SumMatrix(HEucl, HGeom), lambdas |-> lambdas])

TrivialHessian ==
    [hessian |-> <<>>, eigenvalues |-> <<>>, eigenvectors |-> <<>>,
     isLocalMinimum |-> TRUE, indexMorseCritical |-> 0]
\* a rolling dimension read off the rows instead of the columns
RollDimRows(R) == Len(R)

\* const rollDim = R.length > 0 ? R[0].length : 0
RollDim(R) == IF Len(R) > 0 THEN Len(R[1]) ELSE 0

\* computeHessian(config, R) with `raw` the library's eigenvalues of H_roll
computeHessian(c, R, raw) ==
    LET rollDim == RollDim(R)
    IN  IF rollDim = 0 THEN Returned(TrivialHessian)
        ELSE LET A == buildContactMatrix(c)
             IN  IF A.threw THEN Thrown(A.error)
                 ELSE LET HRoll == [i \in 1..rollDim |->
                                       [j \in 1..rollDim |->
                                           ClampEntry(projectToRoll(R, i - 1, j - 1))]]
                          spectrum == intrinsicSpectrum(raw)
                          indexMorseCritical == CountNegative(spectrum.eigenvalues, 1)
                      IN  Returned([hessian            |-> HRoll,
                                    eigenvalues        |-> spectrum.eigenvalues,
                                    eigenvectors       |-> spectrum.eigenvectors,
                                    isLocalMinimum     |-> indexMorseCritical = 0,
                                    indexMorseCritical |-> indexMorseCritical])

----------------------------------------------------------------------------
(* Orchestrator: services/analysis.ts *)

\* isCriticalPoint(gradient, rollingMatrix): trivially true on an empty rolling
\* space; otherwise the outcome of comparing the library product R^T gradient
\* with 1e-8, `small` telling whether every component is below it
isCriticalPoint(rollingMatrix, small) ==
    IF Len(rollingMatrix) = 0 \/ Len(rollingMatrix[1]) = 0 THEN TRUE
    ELSE small

\* a summary whose critical line reads the Hessian's verdict
generateSummaryByHessian(c, validation, cons, perim, hess, small) ==
    [disks     |-> c.n,
     contacts  |-> Len(c.contacts),
     valid     |-> validation.isValid,
     message   |-> validation.message,
     dimension |-> cons.dimension,
     rigid     |-> cons.dimension <= 3,
     perimeter |-> perim.perimeter,
     critical  |-> hess.isLocalMinimum,
     lambdas   |-> hess.eigenvalues,
     morse     |-> hess.indexMorseCritical,
     localMin  |-> hess.isLocalMinimum]

\* the lines of generateSummary, each with the values it interpolates
generateSummary(c, validation, cons, perim, hess, small) ==
    [disks     |-> c.n,
     contacts  |-> Len(c.contacts),
     valid     |-> validation.isValid,
     message   |-> validation.message,
     dimension |-> cons.dimension,
     rigid     |-> cons.dimension <= 3,
     perimeter |-> perim.perimeter,
     critical  |-> isCriticalPoint(cons.rollingMatrix, small),
     lambdas   |-> hess.eigenvalues,
     morse     |-> hess.indexMorseCritical,
     localMin  |-> hess.isLocalMinimum]

----------------------------------------------------------------------------
(* Catalog loader: services/jsonLoader.ts *)

\* the radius of the data files, "1", in fixed point
Radius == 1000

\* The data files hold n disks of radius 1 with contacts at distance 2; two
\* entries stand for them: three disks in a triangle, three disks in a row.
Catalog ==
    [name \in {"D3-1", "D3-2"} |->
        IF name = "D3-1"
        THEN createConfiguration(<<<<0, 0>>, <<2000, 0>>, <<1000, 1732>>>>,
                                 <<<<0, 1>>, <<0, 2>>, <<1, 2>>>>, Radius, <<>>, <<>>)
        ELSE createConfiguration(<<<<0, 0>>, <<2000, 0>>, <<4000, 0>>>>,
                                 <<<<0, 1>>, <<1, 2>>>>, Radius, <<>>, <<>>)]

\* a loader that, finding a cache, parses the first entry again and keeps
\* nothing else
loadAllConfigurationsAgain(cache) ==
    IF cache # None THEN Some([name \in {"D3-1"} |-> Catalog[name]]) ELSE Some(Catalog)

\* loadAllConfigurations(): the cache after the call
loadAllConfigurations(cache) == IF cache # None THEN cache ELSE Some(Catalog)

\* the names D<diskCount>-<index + 1> in the order catalog.set inserted them,
\* which is also their sorted order
CatalogKeys == <<"D3-1", "D3-2">>

\* the disk count that a name starts with
NameSize == ("D3-1" :> 3) @@ ("D3-2" :> 3)

\* Array.from(catalog.keys())
Keys(catalog) ==
    LET Present(name) == name \in DOMAIN catalog
    IN  SelectSeq(CatalogKeys, Present)

\* an Error that names nothing but the request
NotFoundBare(name, available) ==
    [kind |-> "Configuration not found", name |-> name, available |-> <<>>]

\* Error(`Configuration "${name}" not found. Available: ${available}`)
NotFound(name, available) ==
    [kind |-> "Configuration not found", name |-> name, available |-> available]

\* loadConfiguration(name), on the cache that loadAllConfigurations returns
loadConfiguration(cache, name) ==
    LET catalog == loadAllConfigurations(cache)[1]
    IN  IF name \in DOMAIN catalog THEN Returned(catalog[name])
        ELSE Thrown(NotFound(name, Keys(catalog)))

\* listConfigurationNames(): a sorted copy of the keys
listConfigurationNames(cache) == Keys(loadAllConfigurations(cache)[1])

\* listConfigurationsBySize(size): the names that start with D<size>-
listConfigurationsBySize(cache, size) ==
    LET StartsWith(name) == NameSize[name] = size
    IN  SelectSeq(listConfigurationNames(cache), StartsWith)

\* getCatalogStats(): the number of names, and the number of names per size
getCatalogStats(cache) ==
    LET names == listConfigurationNames(cache)
        sizes == {NameSize[names[k]] : k \in 1..Len(names)}
    IN  [total  |-> Len(names),
         bySize |-> [size \in sizes |->
                        Cardinality({k \in 1..Len(names) : NameSize[names[k]] = size})]]

----------------------------------------------------------------------------
(* Inputs *)

\* contacts offered to n disks: every pair of disks, and pairs with an index
\* just below or just above the range
Pairs(n) ==
    ((0..(n - 1)) \X (0..(n - 1))) \cup {<<-1, -1>>, <<-1, 0>>, <<0, n>>, <<n, n>>}

\* n centers in a row, 2 apart
RowPositions(n) == [k \in 1..n |-> <<2 * Scale * (k - 1), 0>>]

\* every way to cut a list of contacts into contacts and lattice contacts
Splits(positions, all) ==
    {createConfiguration(positions, SubSeq(all, 1, s), Radius,
                         SubSeq(all, s + 1, Len(all)), <<>>) : s \in 0..Len(all)}

RECURSIVE CompleteEdges(_, _, _)
\* the edges (u, v), u < v, of the complete graph on 0..core-1, from (u, v) on
CompleteEdges(core, u, v) ==
    IF u >= core - 1 THEN <<>>
    ELSE IF v >= core THEN CompleteEdges(core, u + 1, u + 2)
    ELSE <<<<u, v>>>> \o CompleteEdges(core, u, v + 1)

\* one more contact that fails a check: out of range, a self-loop, a duplicate
Faulty(n) == {<<0, n>>, <<1, 1>>, <<1, 0>>}

\* the complete graph on `core` disks less at most MaxDrop of the edges at
\* disk 0, with or without an isolated disk and one faulty contact
DenseGraphs(core) ==
    LET edges == CompleteEdges(core, 0, 1)
        atZero == {e \in Range(edges) : e[1] = 0}
    IN  UNION {
            LET kept == SelectSeq(edges, LAMBDA e : e \notin dropped)
            IN  {createConfiguration(RowPositions(n), kept, Radius, <<>>, <<>>)
                     : n \in {core, core + 1}}
                \cup {createConfiguration(RowPositions(core), <<f>> \o kept,
                                          Radius, <<>>, <<>>) : f \in Faulty(core)}
                \cup {createConfiguration(RowPositions(n), kept, Radius,
                                          <<f>>, <<>>)
                         : n \in {core, core + 1}, f \in Faulty(core)}
            : dropped \in SubsetsUpTo(atZero, MaxDrop)}

\* centers offered to an analysis input: corners of unit triangles of side 2
AnalysisPoints == <<<<0, 0>>, <<1000, 1732>>, <<2000, 0>>, <<3000, 1732>>>>

\* n centers: all distinct, or the last one on top of the first
Layouts(n) ==
    {[k \in 1..n |-> AnalysisPoints[k]],
     [k \in 1..n |-> IF k = n THEN AnalysisPoints[1] ELSE AnalysisPoints[k]]}

\* contact indices offered to an analysis of n disks: one above the range too
ContactPairs(n) == (0..n) \X (0..n)

\* lattice contacts offered to an analysis input
LatticeChoices == {<<>>, <<<<0, 0>>>>}

\* the configurations of n disks handed to analyzeConfiguration and buildContactMatrix
AnalysisInputs(n) ==
    {createConfiguration(positions, contacts, Radius, lattice, <<>>)
        : positions \in Layouts(n),
          contacts \in SeqsUpTo(ContactPairs(n), MaxEdges),
          lattice \in LatticeChoices}

\* the configurations of n disks handed to computeHessian directly, which
\* reads the contacts through buildContactMatrix only: none or one contact
HessianInputs(n) ==
    {createConfiguration(positions, contacts, Radius, <<>>, <<>>)
        : positions \in Layouts(n),
          contacts \in {<<>>} \cup {<<e>> : e \in ContactPairs(n)}}

\* the coordinates of the points handed to the perimeter functions directly
GridPoints == {-1000, 0, 1000} \X {0, 1000, 2000}

\* the lists of n such points, repetitions included
PointLists(n) == [1..n -> GridPoints]

\* the configuration of unit disks at these points, without contacts
PointConfiguration(points) == createConfiguration(points, <<>>, Radius, <<>>, <<>>)

\* the contact lists of the configurations whose ambient Hessian is assembled:
\* none, one pair of indices (out of range and self-loops included, as
\* createConfiguration takes them), and the chain 0-1, 1-2, ...
AmbientContacts(n) ==
    {<<>>} \cup {<<e>> : e \in ContactPairs(n)}
           \cup {[k \in 1..(n - 1) |-> <<k - 1, k>>]}

\* matrices handed to rollingSpaceBasis directly: the empty one, and rows x
\* cols matrices with 1 on the diagonal
MatrixInputs ==
    {<<>>} \cup {[r \in 1..rows |-> [c \in 1..cols |-> IF r = c THEN Scale ELSE 0]]
                    : rows \in 1..MaxMatrix, cols \in 1..MaxMatrix}

\* the columns of a d-column matrix that hold a non-finite entry: none, one
\* of them, or all
NonFiniteColumns(d) == {{}} \cup {{k} : k \in 1..d} \cup {1..d}

\* rolling matrices handed to computeHessian directly: empty, rows without
\* columns, and 2n rows of d columns, whose first row may hold entries that
\* are not finite
RollingInputs(n) ==
    {<<>>} \cup UNION {{[row \in 1..(2 * n) |->
                    [k \in 1..d |-> IF row = 1 /\ k \in bad THEN NonFinite
                                    ELSE V(row - 1, k - 1)]]
                    : bad \in NonFiniteColumns(d)} : d \in 0..(2 * n)}

----------------------------------------------------------------------------
(* The state machine *)

\* the component before its first render: useState(null), useState(true),
\* useState(null); no effect has run
InitialHook ==
    [mounted    |-> FALSE,
     renders    |-> 0,
     configName |-> None,
     data       |-> None,
     loading    |-> TRUE,
     error      |-> None,
     runs       |-> {},
     running    |-> None]

\* no library call made yet
NoLibrary == [atA |-> None, hRoll |-> None, small |-> None]

Init ==
    /\ catalogCache = None
    /\ pc = "idle"
    /\ config = None
    /\ graphValidation = None
    /\ constraints = None
    /\ perimeter = None
    /\ hessian = None
    /\ summary = None
    /\ error = None
    /\ lib = NoLibrary
    /\ first = None
    /\ ret = None
    /\ hook = InitialHook

analysisVars == <<pc, config, graphValidation, constraints, perimeter, hessian,
                  summary, error>>

Quiet == pc = "idle" /\ ret = None

\* the answers a library call can give: any of `all`, but the same answer as
\* before when the configuration is the one of the kept analysis, the
\* decompositions being functions of their argument
Answers(kind, all) ==
    IF first # None /\ first[1].config = config[1] /\ first[1].lib[kind] # None
    THEN {first[1].lib[kind][1]}
    ELSE all

Call(fn, c, R, out) == [fn |-> fn, config |-> c, R |-> R, out |-> out]

\* a direct call of the exported checkGraphValidity on a small graph
CallCheckGraphValidity ==
    /\ Quiet
    /\ \E n \in 1..MaxN :
          \E all \in SeqsUpTo(Pairs(n), MaxEdges) :
             \E c \in Splits(RowPositions(n), all) :
                ret' = Some(Call("checkGraphValidity", c, <<>>,
                                 Returned(checkGraphValidity(c))))
    /\ UNCHANGED hook
    /\ UNCHANGED first
    /\ UNCHANGED <<catalogCache, analysisVars, lib>>

\* a direct call of the exported checkGraphValidity on a dense graph
CallCheckGraphValidityDense ==
    /\ Quiet
    /\ \E core \in 6..MaxCore :
          \E c \in DenseGraphs(core) :
             ret' = Some(Call("checkGraphValidity", c, <<>>,
                              Returned(checkGraphValidity(c))))
    /\ UNCHANGED hook
    /\ UNCHANGED first
    /\ UNCHANGED <<catalogCache, analysisVars, lib>>

\* a direct call of the exported buildContactMatrix
CallBuildContactMatrix ==
    /\ Quiet
    /\ \E c \in UNION {AnalysisInputs(n) : n \in 1..MaxAnalysisN} \cup Values(Catalog) :
          ret' = Some(Call("buildContactMatrix", c, <<>>, buildContactMatrix(c)))
    /\ UNCHANGED hook
    /\ UNCHANGED first
    /\ UNCHANGED <<catalogCache, analysisVars, lib>>

\* a direct call of the exported computeHessian
CallComputeHessian ==
    /\ Quiet
    /\ \E c \in UNION {HessianInputs(n) : n \in 1..MaxAnalysisN} :
          \E R \in RollingInputs(c.n) :
             \E raw \in HessianSpectra(Columns(R)) :
                ret' = Some(Call("computeHessian", c, R, computeHessian(c, R, raw)))
    /\ UNCHANGED hook
    /\ UNCHANGED first
    /\ UNCHANGED <<catalogCache, analysisVars, lib>>

\* a direct call of the exported rollingSpaceBasis; no decomposition is made
\* of an empty matrix
CallRollingSpaceBasis ==
    /\ Quiet
    /\ \E A \in MatrixInputs :
          IF A = <<>>
          THEN /\ ret' = Some(Call("rollingSpaceBasis", None, A,
                                   Returned(rollingSpaceBasis(A, <<>>))))
               /\ UNCHANGED lib
          ELSE \E eigenvalues \in AtASpectra(A) :
                  /\ ret' = Some(Call("rollingSpaceBasis", None, A,
                                      Returned(rollingSpaceBasis(A, eigenvalues))))
                  /\ lib' = [lib EXCEPT !.atA = Some(eigenvalues)]
    /\ UNCHANGED hook
    /\ UNCHANGED first
    /\ UNCHANGED <<catalogCache, analysisVars>>

\* a direct call of the exported computeConstraints; an Error thrown by
\* buildContactMatrix leaves it
CallComputeConstraints ==
    /\ Quiet
    /\ \E n \in 1..MaxAnalysisN :
          \E c \in AnalysisInputs(n) :
             LET A == buildContactMatrix(c)
             IN  IF A.threw
                 THEN /\ ret' = Some(Call("computeConstraints", c, <<>>, Thrown(A.error)))
                      /\ UNCHANGED lib
                 ELSE IF A.value = <<>>
                 THEN /\ ret' = Some(Call("computeConstraints", c, <<>>,
                                          Returned(computeConstraints(A.value, <<>>))))
                      /\ UNCHANGED lib
                 ELSE \E eigenvalues \in AtASpectra(A.value) :
                         /\ ret' = Some(Call("computeConstraints", c, <<>>,
                                             Returned(computeConstraints(A.value,
                                                                         eigenvalues))))
                         /\ lib' = [lib EXCEPT !.atA = Some(eigenvalues)]
    /\ UNCHANGED hook
    /\ UNCHANGED first
    /\ UNCHANGED <<catalogCache, analysisVars>>

\* the assembly of HEucl, HGeom and HTotal at the head of computeHessian on a
\* non-empty rolling space; an Error thrown by buildContactMatrix leaves it
AssembleAmbientHessian ==
    /\ Quiet
    /\ \E n \in 1..MaxAmbientN :
          \E points \in PointLists(n) :
             \E contacts \in AmbientContacts(n) :
                \E lambdas \in [1..Len(contacts) -> Multipliers] :
                   LET c == createConfiguration(points, contacts, Radius, <<>>, <<>>)
                   IN  ret' = Some(Call("ambientHessian", c, <<>>,
                                        ambientHessian(c, lambdas)))
    /\ UNCHANGED hook
    /\ UNCHANGED first
    /\ UNCHANGED <<catalogCache, analysisVars, lib>>

\* a direct call of the exported intrinsicSpectrum on a d x d matrix
CallIntrinsicSpectrum ==
    /\ Quiet
    /\ \E d \in 1..MaxSpectrum :
          \E raw \in RawSpectra(d) :
             ret' = Some(Call("intrinsicSpectrum", None, raw,
                              Returned(intrinsicSpectrum(raw))))
    /\ UNCHANGED hook
    /\ UNCHANGED first
    /\ UNCHANGED <<catalogCache, analysisVars, lib>>

\* a direct call of the exported convexHullIndices
CallConvexHullIndices ==
    /\ Quiet
    /\ \E n \in 1..MaxPoints :
          \E points \in PointLists(n) :
             ret' = Some(Call("convexHullIndices", PointConfiguration(points), <<>>,
                              Returned(convexHullIndices(points))))
    /\ UNCHANGED hook
    /\ UNCHANGED first
    /\ UNCHANGED <<catalogCache, analysisVars, lib>>

\* a direct call of the exported isCollinear
CallIsCollinear ==
    /\ Quiet
    /\ \E n \in 1..MaxPoints :
          \E points \in PointLists(n) :
             ret' = Some(Call("isCollinear", PointConfiguration(points), <<>>,
                              Returned(isCollinear(points))))
    /\ UNCHANGED hook
    /\ UNCHANGED first
    /\ UNCHANGED <<catalogCache, analysisVars, lib>>

\* a direct call of the exported perimeterOfCenters
CallPerimeterOfCenters ==
    /\ Quiet
    /\ \E n \in 1..MaxPoints :
          \E points \in PointLists(n) :
             ret' = Some(Call("perimeterOfCenters", PointConfiguration(points), <<>>,
                              Returned(perimeterOfCenters(PointConfiguration(points)))))
    /\ UNCHANGED hook
    /\ UNCHANGED first
    /\ UNCHANGED <<catalogCache, analysisVars, lib>>

\* a direct call of the exported computePerimeter
CallComputePerimeter ==
    /\ Quiet
    /\ \E n \in 1..MaxPoints :
          \E points \in PointLists(n) :
             ret' = Some(Call("computePerimeter", PointConfiguration(points), <<>>,
                              Returned(computePerimeter(PointConfiguration(points)))))
    /\ UNCHANGED hook
    /\ UNCHANGED first
    /\ UNCHANGED <<catalogCache, analysisVars, lib>>

\* a direct call of the exported loadAllConfigurations
CallLoadAllConfigurations ==
    /\ Quiet
    /\ catalogCache' = loadAllConfigurations(catalogCache)
    /\ ret' = Some(Call("loadAllConfigurations", None, catalogCache,
                        Returned(catalogCache'[1])))
    /\ UNCHANGED hook
    /\ UNCHANGED first
    /\ UNCHANGED <<analysisVars, lib>>

\* names and sizes asked of the catalog: present and absent ones
RequestedNames == {"D3-1", "D3-2", "D3-3", "D4-1"}

RequestedSizes == {3, 4}

\* a direct call of the exported loadConfiguration; the record of a catalog
\* call holds its argument and the cache it found
CallLoadConfiguration ==
    /\ Quiet
    /\ catalogCache' = loadAllConfigurations(catalogCache)
    /\ \E name \in RequestedNames :
          ret' = Some(Call("loadConfiguration", name, catalogCache,
                           loadConfiguration(catalogCache, name)))
    /\ UNCHANGED hook
    /\ UNCHANGED first
    /\ UNCHANGED <<analysisVars, lib>>

\* a direct call of the exported listConfigurationNames
CallListConfigurationNames ==
    /\ Quiet
    /\ catalogCache' = loadAllConfigurations(catalogCache)
    /\ ret' = Some(Call("listConfigurationNames", None, catalogCache,
                        Returned(listConfigurationNames(catalogCache))))
    /\ UNCHANGED hook
    /\ UNCHANGED first
    /\ UNCHANGED <<analysisVars, lib>>

\* a direct call of the exported listConfigurationsBySize
CallListConfigurationsBySize ==
    /\ Quiet
    /\ catalogCache' = loadAllConfigurations(catalogCache)
    /\ \E size \in RequestedSizes :
          ret' = Some(Call("listConfigurationsBySize", size, catalogCache,
                           Returned(listConfigurationsBySize(catalogCache, size))))
    /\ UNCHANGED hook
    /\ UNCHANGED first
    /\ UNCHANGED <<analysisVars, lib>>

\* a direct call of the exported getCatalogStats
CallGetCatalogStats ==
    /\ Quiet
    /\ catalogCache' = loadAllConfigurations(catalogCache)
    /\ ret' = Some(Call("getCatalogStats", None, catalogCache,
                        Returned(getCatalogStats(catalogCache))))
    /\ UNCHANGED hook
    /\ UNCHANGED first
    /\ UNCHANGED <<analysisVars, lib>>

\* a direct call of the exported createConfiguration
CallCreateConfiguration ==
    /\ Quiet
    /\ \E n \in 1..MaxAnalysisN :
          \E c \in AnalysisInputs(n) :
             ret' = Some(Call("createConfiguration", None, <<>>,
                              Returned(createConfiguration(c.positions, c.contacts,
                                                           Radius, c.latticeContacts,
                                                           c.latticeShifts))))
    /\ UNCHANGED hook
    /\ UNCHANGED first
    /\ UNCHANGED <<catalogCache, analysisVars, lib>>

\* the caller drops the value of a direct call
Return ==
    /\ ret # None
    /\ ret' = None
    /\ lib' = NoLibrary
    /\ UNCHANGED hook
    /\ UNCHANGED first
    /\ UNCHANGED <<catalogCache, analysisVars>>

\* the configurations of a caller that analyses the same ones again and
\* again: one disk, two disks apart, two disks in contact
RepeatInputs ==
    {createConfiguration(<<AnalysisPoints[1]>>, <<>>, Radius, <<>>, <<>>)}
        \cup {createConfiguration(<<AnalysisPoints[1], AnalysisPoints[3]>>, contacts,
                                   Radius, <<>>, <<>>)
                  : contacts \in {<<>>, <<<<0, 1>>>>}}

\* analyzeConfiguration(config) is entered with one of these
AnalyzeRepeated ==
    /\ Quiet
    /\ \E c \in RepeatInputs : config' = Some(c)
    /\ pc' = "validate"
    /\ UNCHANGED hook
    /\ UNCHANGED first
    /\ UNCHANGED <<catalogCache, graphValidation, constraints, perimeter, hessian,
                   summary, error, lib, ret>>

\* analyzeConfiguration(config) is entered, with a configuration of the caller
\* or one of the cached catalog
Analyze ==
    /\ Quiet
    /\ \E c \in UNION {AnalysisInputs(n) : n \in 1..MaxAnalysisN}
                  \cup (IF catalogCache = None THEN {} ELSE Values(catalogCache[1])) :
          config' = Some(c)
    /\ pc' = "validate"
    /\ UNCHANGED hook
    /\ UNCHANGED first
    /\ UNCHANGED <<catalogCache, graphValidation, constraints, perimeter, hessian,
                   summary, error, lib, ret>>

\* a first step that leaves the call when the graph is not valid
ValidateGate ==
    /\ pc = "validate"
    /\ graphValidation' = Some(checkGraphValidity(config[1]))
    /\ IF graphValidation'[1].isValid
       THEN pc' = "constraints" /\ UNCHANGED error
       ELSE pc' = "threw" /\ error' = Some([kind |-> "Invalid contact graph",
                                            i |-> 0, j |-> 0])
    /\ UNCHANGED hook
    /\ UNCHANGED first
    /\ UNCHANGED <<catalogCache, config, constraints, perimeter, hessian, summary,
                   lib, ret>>

\* Step 1: const graphValidation = checkGraphValidity(config)
Validate ==
    /\ pc = "validate"
    /\ graphValidation' = Some(checkGraphValidity(config[1]))
    /\ pc' = "constraints"
    /\ UNCHANGED hook
    /\ UNCHANGED first
    /\ UNCHANGED <<catalogCache, config, constraints, perimeter, hessian, summary,
                   error, lib, ret>>

\* Step 2: const constraints = computeConstraints(config); an Error thrown by
\* buildContactMatrix leaves analyzeConfiguration
Constrain ==
    /\ pc = "constraints"
    /\ LET A == buildContactMatrix(config[1])
       IN  IF A.threw
           THEN /\ error' = Some(A.error)
                /\ pc' = "threw"
                /\ UNCHANGED <<constraints, lib>>
           ELSE /\ IF A.value = <<>>
                   THEN /\ constraints' = Some(computeConstraints(A.value, <<>>))
                        /\ UNCHANGED lib
                   ELSE \E eigenvalues \in Answers("atA", AtASpectra(A.value)) :
                           /\ constraints' = Some(computeConstraints(A.value, eigenvalues))
                           /\ lib' = [lib EXCEPT !.atA = Some(eigenvalues)]
                /\ pc' = "perimeter"
                /\ UNCHANGED error
    /\ UNCHANGED hook
    /\ UNCHANGED first
    /\ UNCHANGED <<catalogCache, config, graphValidation, perimeter, hessian,
                   summary, ret>>

\* a third step that sorts the positions of its argument in place
PerimeterInPlace ==
    /\ pc = "perimeter"
    /\ perimeter' = Some(computePerimeter(config[1]))
    /\ LET n == config[1].n
           indexed == [k \in 1..n |-> <<config[1].positions[k][1],
                                        config[1].positions[k][2], k - 1>>]
           sorted == SortIndexed(indexed, 1, <<>>)
       IN  config' = Some([config[1] EXCEPT
                              !.positions = [k \in 1..n |-> <<sorted[k][1], sorted[k][2]>>]])
    /\ pc' = "hessian"
    /\ UNCHANGED hook
    /\ UNCHANGED first
    /\ UNCHANGED <<catalogCache, graphValidation, constraints, hessian,
                   summary, error, lib, ret>>

\* Step 3: const perimeter = computePerimeter(config)
Perimeter ==
    /\ pc = "perimeter"
    /\ perimeter' = Some(computePerimeter(config[1]))
    /\ pc' = "hessian"
    /\ UNCHANGED hook
    /\ UNCHANGED first
    /\ UNCHANGED <<catalogCache, config, graphValidation, constraints, hessian,
                   summary, error, lib, ret>>

\* Steps 4-5: const hessian = computeHessian(config, constraints.rollingMatrix)
Hessian ==
    /\ pc = "hessian"
    /\ \E raw \in Answers("hRoll",
                           HessianSpectra(Columns(constraints[1].rollingMatrix))) :
          LET H == computeHessian(config[1], constraints[1].rollingMatrix, raw)
          IN  IF H.threw
              THEN /\ error' = Some(H.error)
                   /\ pc' = "threw"
                   /\ UNCHANGED <<hessian, lib>>
              ELSE /\ hessian' = Some(H.value)
                   /\ lib' = IF Columns(constraints[1].rollingMatrix) = 0 THEN lib
                             ELSE [lib EXCEPT !.hRoll = Some(raw)]
                   /\ pc' = "summary"
                   /\ UNCHANGED error
    /\ UNCHANGED hook
    /\ UNCHANGED first
    /\ UNCHANGED <<catalogCache, config, graphValidation, constraints, perimeter,
                   summary, ret>>

\* Step 6: const summary = generateSummary(partialResult); return
Summarize ==
    /\ pc = "summary"
    /\ \E small \in Answers("small", BOOLEAN) :
          /\ summary' = Some(generateSummary(config[1], graphValidation[1],
                                             constraints[1], perimeter[1], hessian[1],
                                             small))
          /\ lib' = IF Columns(constraints[1].rollingMatrix) = 0 THEN lib
                    ELSE [lib EXCEPT !.small = Some(small)]
    /\ pc' = "done"
    /\ UNCHANGED hook
    /\ UNCHANGED first
    /\ UNCHANGED <<catalogCache, config, graphValidation, constraints, perimeter,
                   hessian, error, ret>>

\* the caller drops the AnalysisResult, or the Error it caught
Finish ==
    /\ pc \in {"done", "threw"}
    /\ hook.running = None
    /\ pc' = "idle"
    /\ config' = None
    /\ graphValidation' = None
    /\ constraints' = None
    /\ perimeter' = None
    /\ hessian' = None
    /\ summary' = None
    /\ error' = None
    /\ lib' = NoLibrary
    /\ UNCHANGED hook
    /\ UNCHANGED first
    /\ UNCHANGED <<catalogCache, ret>>

\* the AnalysisResult returned by the call in progress
Result ==
    [configuration   |-> config[1],
     graphValidation |-> graphValidation[1],
     constraints     |-> constraints[1],
     perimeter       |-> perimeter[1],
     hessian         |-> hessian[1],
     summary         |-> summary[1]]

\* the caller keeps the AnalysisResult of a configuration it will analyse again
Keep ==
    /\ pc = "done"
    /\ hook.running = None
    /\ first = None
    /\ config[1] \in RepeatInputs
    /\ first' = Some([config |-> config[1], result |-> Result, lib |-> lib,
                      cache |-> catalogCache])
    /\ pc' = "idle"
    /\ config' = None
    /\ graphValidation' = None
    /\ constraints' = None
    /\ perimeter' = None
    /\ hessian' = None
    /\ summary' = None
    /\ error' = None
    /\ lib' = NoLibrary
    /\ UNCHANGED <<catalogCache, ret, hook>>

----------------------------------------------------------------------------
(* The hook useAnalysis(configName): hooks/useAnalysis.ts *)

\* the configName of a render: "" for undefined or the empty string, a name of
\* the catalog, a name that is not in it
HookNames == {"", "D3-1", "D3-3"}

\* setError('No configuration name provided')
NoNameProvided == [kind |-> "No configuration name provided"]

\* the cleanup of the last effect, if it registered one: cancelled = true and
\* cancelAnimationFrame(id), which drops a frame callback that has not run; a
\* timer already set will still fire
Cleanup(runs) ==
    {[r EXCEPT !.cancelled = TRUE] : r \in {x \in runs : x.stage = "timer"}}

\* a render with a configName that differs from the one of the last render
\* (the first render included): React runs the cleanup of the last effect and
\* then the effect
Render ==
    /\ pc = "idle"
    /\ hook.renders < MaxRenders
    /\ hook.mounted \/ hook.renders = 0
    /\ \E configName \in HookNames :
          /\ hook.configName # Some(configName)
          /\ hook' = IF configName = ""
                      THEN [hook EXCEPT !.mounted = TRUE,
                                        !.renders = @ + 1,
                                        !.configName = Some(configName),
                                        !.error = Some(NoNameProvided),
                                        !.loading = FALSE,
                                        !.runs = Cleanup(@)]
                      ELSE [hook EXCEPT !.mounted = TRUE,
                                        !.renders = @ + 1,
                                        !.configName = Some(configName),
                                        !.loading = TRUE,
                                        !.error = None,
                                        !.data = None,
                                        !.runs = Cleanup(@) \cup
                                                 {[id |-> hook.renders + 1,
                                                   configName |-> configName,
                                                   cancelled |-> FALSE,
                                                   stage |-> "frame"]}]
    /\ UNCHANGED <<catalogCache, analysisVars, lib, first, ret>>

\* the component is removed: React runs the cleanup of the last effect
Unmount ==
    /\ pc = "idle"
    /\ hook.mounted
    /\ hook' = [hook EXCEPT !.mounted = FALSE, !.runs = Cleanup(@)]
    /\ UNCHANGED <<catalogCache, analysisVars, lib, first, ret>>

\* the requestAnimationFrame callback: setTimeout(..., 0)
AnimationFrame ==
    /\ pc = "idle"
    /\ \E r \in hook.runs :
          /\ r.stage = "frame"
          /\ hook' = [hook EXCEPT !.runs = (@ \ {r}) \cup {[r EXCEPT !.stage = "timer"]}]
    /\ UNCHANGED <<catalogCache, analysisVars, lib, first, ret>>

\* the timer callback up to the call of analyzeConfiguration: it returns at
\* once when cancelled; an Error of loadConfiguration is caught, and its
\* message becomes the error
TimerStart ==
    /\ pc = "idle"
    /\ \E r \in hook.runs :
          /\ r.stage = "timer"
          /\ IF r.cancelled
             THEN /\ hook' = [hook EXCEPT !.runs = @ \ {r}]
                  /\ UNCHANGED <<catalogCache, analysisVars>>
             ELSE LET found == loadConfiguration(catalogCache, r.configName)
                  IN  /\ catalogCache' = loadAllConfigurations(catalogCache)
                      /\ IF found.threw
                         THEN /\ hook' = [hook EXCEPT !.error = Some(found.error),
                                                      !.loading = FALSE,
                                                      !.runs = @ \ {r}]
                              /\ UNCHANGED analysisVars
                         ELSE /\ hook' = [hook EXCEPT !.running = Some(r)]
                              /\ config' = Some(found.value)
                              /\ pc' = "validate"
                              /\ UNCHANGED <<graphValidation, constraints, perimeter,
                                             hessian, summary, error>>
    /\ UNCHANGED <<lib, first, ret>>

\* projGrad of the hook: d sums of R[i][k] * grad[i], the products and sums
\* that mathjs makes for R^T gradient in isCriticalPoint, in the same order;
\* `small` tells whether every component is below 1e-8 in absolute value
ProjectedGradient(R, small) ==
    [length |-> IF Len(R) > 0 THEN Len(R[1]) ELSE 0, small |-> small]

\* projGrad.every((v) => Math.abs(v) < 1e-8)
EveryBelow(projGrad) == projGrad.length = 0 \/ projGrad.small

\* the rest of the timer callback, analyzeConfiguration having returned or
\* thrown: setData(...) or setError(e.message), then setLoading(false), each
\* unless cancelled.  configName in data is the name the callback closed over
TimerSettle ==
    /\ pc \in {"done", "threw"}
    /\ hook.running # None
    /\ LET r == hook.running[1]
           R == constraints[1].rollingMatrix
           projGrad == ProjectedGradient(R, IF lib.small = None THEN TRUE
                                            ELSE lib.small[1])
       IN  hook' = IF r.cancelled THEN [hook EXCEPT !.running = None, !.runs = @ \ {r}]
                   ELSE IF pc = "threw"
                   THEN [hook EXCEPT !.error = Some(error[1]),
                                     !.loading = FALSE,
                                     !.running = None,
                                     !.runs = @ \ {r}]
                   ELSE [hook EXCEPT !.data = Some([configName |-> r.configName,
                                                    result |-> Result,
                                                    perimeterCenters |->
                                                        perimeterOfCenters(config[1]),
                                                    contactMatrix |->
                                                        buildContactMatrix(config[1]).value,
                                                    projectedGradient |-> projGrad,
                                                    isCritical |-> EveryBelow(projGrad)]),
                                     !.loading = FALSE,
                                     !.running = None,
                                     !.runs = @ \ {r}]
    /\ pc' = "idle"
    /\ config' = None
    /\ graphValidation' = None
    /\ constraints' = None
    /\ perimeter' = None
    /\ hessian' = None
    /\ summary' = None
    /\ error' = None
    /\ lib' = NoLibrary
    /\ UNCHANGED <<catalogCache, first, ret>>

AnalysisStep ==
    Analyze \/ Validate \/ Constrain \/ Perimeter \/ Hessian \/ Summarize \/ Finish

Next ==
    \/ CallCheckGraphValidity
    \/ CallCheckGraphValidityDense
    \/ CallBuildContactMatrix
    \/ CallComputeHessian
    \/ CallRollingSpaceBasis
    \/ CallComputeConstraints
    \/ CallIntrinsicSpectrum
    \/ CallConvexHullIndices
    \/ CallIsCollinear
    \/ CallPerimeterOfCenters
    \/ CallComputePerimeter
    \/ CallLoadAllConfigurations
    \/ CallLoadConfiguration
    \/ CallListConfigurationNames
    \/ CallListConfigurationsBySize
    \/ CallGetCatalogStats
    \/ CallCreateConfiguration
    \/ AssembleAmbientHessian
    \/ Return
    \/ Render
    \/ Unmount
    \/ AnimationFrame
    \/ TimerStart
    \/ TimerSettle
    \/ AnalysisStep
    \/ AnalyzeRepeated
    \/ Keep

\* every entry point of the services
Spec == Init /\ [][Next]_vars

\* the graph validator alone
SpecValidator ==
    Init /\ [][CallCheckGraphValidity \/ CallCheckGraphValidityDense \/ Return]_vars

\* the contact Jacobian alone
SpecJacobian == Init /\ [][CallBuildContactMatrix \/ Return]_vars

\* the Hessian engine alone
SpecHessian == Init /\ [][CallComputeHessian \/ Return]_vars

\* the spectrum of the Hessian, computed directly and by computeHessian
SpecHook ==
    Init /\ [][Render \/ Unmount \/ AnimationFrame \/ TimerStart \/ Validate
                  \/ Constrain \/ Perimeter \/ Hessian \/ Summarize \/ TimerSettle]_vars

SpecAmbient == Init /\ [][AssembleAmbientHessian \/ Return]_vars

SpecSpectrum == Init /\ [][CallIntrinsicSpectrum \/ CallComputeHessian \/ Return]_vars

\* the Hessian engine called directly and inside the pipeline
SpecRigid == Init /\ [][CallComputeHessian \/ Return \/ AnalysisStep]_vars

\* the rolling space, computed directly and by computeConstraints
SpecConstraints ==
    Init /\ [][CallRollingSpaceBasis \/ CallComputeConstraints \/ Return]_vars

\* the perimeter functions, called directly
SpecPerimeter ==
    Init /\ [][CallConvexHullIndices \/ CallIsCollinear \/ CallPerimeterOfCenters
                  \/ CallComputePerimeter \/ Return]_vars

\* the catalog and the constructor of its entries
SpecCatalog ==
    Init /\ [][CallLoadAllConfigurations \/ CallLoadConfiguration
                  \/ CallListConfigurationNames \/ CallListConfigurationsBySize
                  \/ CallGetCatalogStats \/ CallCreateConfiguration \/ Return]_vars

\* analyses repeated by a caller that has kept an earlier result
SpecRepeat ==
    Init /\ [][CallLoadAllConfigurations \/ Return \/ AnalyzeRepeated \/ Validate
                  \/ Constrain \/ Perimeter \/ Hessian \/ Summarize \/ Finish
                  \/ Keep]_vars

\* the analysis pipeline over the catalog cache
SpecAnalysis == Init /\ [][CallLoadAllConfigurations \/ Return \/ AnalysisStep]_vars

----------------------------------------------------------------------------
(* What has been observed: every validation, Jacobian and Hessian result the *)
(* program has produced in the current state, with the input it was given.   *)

\* <<configuration, GraphValidation>> of a direct call and of the pipeline
GraphChecks ==
    (IF ret # None /\ ret[1].fn = "checkGraphValidity"
     THEN {<<ret[1].config, ret[1].out.value>>} ELSE {})
    \cup (IF graphValidation # None THEN {<<config[1], graphValidation[1]>>} ELSE {})

\* <<configuration, matrix>> of every Jacobian built without an error
Jacobians ==
    (IF ret # None /\ ret[1].fn = "buildContactMatrix" /\ ~ret[1].out.threw
     THEN {<<ret[1].config, ret[1].out.value>>} ELSE {})
    \cup (IF constraints # None THEN {<<config[1], constraints[1].contactMatrix>>} ELSE {})

\* every HessianResult returned by computeHessian
HessianResults ==
    (IF ret # None /\ ret[1].fn = "computeHessian" /\ ~ret[1].out.threw
     THEN {ret[1].out.value} ELSE {})
    \cup (IF hessian # None THEN {hessian[1]} ELSE {})

----------------------------------------------------------------------------
(* The contact graph, stated on the list of contacts and independently of    *)
(* the loops of the validator.                                               *)

AllContacts(c) == c.contacts \o c.latticeContacts

InRange(c) ==
    \A k \in 1..Len(AllContacts(c)) :
        /\ AllContacts(c)[k][1] \in 0..(c.n - 1)
        /\ AllContacts(c)[k][2] \in 0..(c.n - 1)

SelfLoops(c) == {k \in 1..Len(AllContacts(c)) : AllContacts(c)[k][1] = AllContacts(c)[k][2]}

OutOfRange(c) ==
    {k \in 1..Len(AllContacts(c)) :
        \E e \in 1..2 : AllContacts(c)[k][e] < 0 \/ AllContacts(c)[k][e] > c.n - 1}

\* contacts that repeat an earlier contact as an unordered pair
Repeats(c) ==
    {k \in 1..Len(AllContacts(c)) :
        \E j \in 1..(k - 1) :
            {AllContacts(c)[j][1], AllContacts(c)[j][2]}
                = {AllContacts(c)[k][1], AllContacts(c)[k][2]}}

RECURSIVE Grow(_, _, _)
\* the disks within k contacts of the disks of S
Grow(c, S, k) ==
    IF k = 0 THEN S
    ELSE LET step == S \cup {v \in 0..(c.n - 1) :
                         \E e \in Range(AllContacts(c)) :
                             \/ e[1] \in S /\ e[2] = v
                             \/ e[2] \in S /\ e[1] = v}
         IN  Grow(c, step, k - 1)

Reachable(c) == Grow(c, {0}, c.n)

Unreachable(c) == (0..(c.n - 1)) \ Reachable(c)

\* the number of contact ends at disk i
Degree(c, i) ==
    Cardinality({ke \in (1..Len(AllContacts(c))) \X (1..2) : AllContacts(c)[ke[1]][ke[2]] = i})

Crowded(c) == {i \in 0..(c.n - 1) : Degree(c, i) > 6}

Least(S) == CHOOSE k \in S : \A j \in S : k <= j

\* the message the first failing check gives, in the order index, self-loop,
\* duplicate, connectivity, degree; "valid" when none fails
Verdict(c) ==
    IF OutOfRange(c) # {}
    THEN LET e == AllContacts(c)[Least(OutOfRange(c))]
         IN  Message("Invalid index in contact", e[1], e[2], c.n - 1)
    ELSE IF SelfLoops(c) # {}
    THEN Message("Self-loop detected at vertex", AllContacts(c)[Least(SelfLoops(c))][1], 0, 0)
    ELSE IF Repeats(c) # {}
    THEN LET e == AllContacts(c)[Least(Repeats(c))]
         IN  Message("Duplicate edge", e[1], e[2], 0)
    ELSE IF Unreachable(c) # {}
    THEN Message("Graph is not connected", 0, 0, 0)
    ELSE IF Crowded(c) # {}
    THEN Message("Vertex has degree > 6", Least(Crowded(c)), Degree(c, Least(Crowded(c))), 0)
    ELSE Message("valid", 0, 0, 0)

PassesAllChecks(c) == Verdict(c).kind = "valid"

----------------------------------------------------------------------------
(* Claims about the graph validator                                          *)

\* C3 as stated: a configuration whose contacts are in range, free of
\* duplicates, connected and of degree at most 6 validates with isValid = true
C3_AsStated ==
    \A cv \in GraphChecks :
        (/\ InRange(cv[1])
         /\ Repeats(cv[1]) = {}
         /\ Unreachable(cv[1]) = {}
         /\ Crowded(cv[1]) = {})
            => cv[2].isValid

\* C3 amended: a configuration whose contacts are in range, contain no
\* self-loop, are free of duplicates, form a connected graph and give every
\* disk degree at most 6 validates with isValid = true
C3_ValidGraphs ==
    \A cv \in GraphChecks :
        (/\ InRange(cv[1])
         /\ SelfLoops(cv[1]) = {}
         /\ Repeats(cv[1]) = {}
         /\ Unreachable(cv[1]) = {}
         /\ Crowded(cv[1]) = {})
            => cv[2].isValid

\* a valid graph in which some disk has exactly six contacts
C3_Witness ==
    \E cv \in GraphChecks :
        /\ cv[2].isValid
        /\ InRange(cv[1]) /\ SelfLoops(cv[1]) = {} /\ Repeats(cv[1]) = {}
        /\ Unreachable(cv[1]) = {}
        /\ \E i \in 0..(cv[1].n - 1) : Degree(cv[1], i) = 6

\* C4: the checks run in the order index range, self-loop, duplicate,
\* connectivity, degree; the first that fails decides the message and the
\* later ones are not consulted
C4_CheckOrder ==
    \A cv \in GraphChecks :
        /\ cv[2].isValid <=> PassesAllChecks(cv[1])
        /\ ~cv[2].isValid => cv[2].message = Verdict(cv[1])

\* a self-loop listed before an out-of-range contact: the index error is reported
C4_Witness ==
    \E cv \in GraphChecks :
        /\ OutOfRange(cv[1]) # {} /\ SelfLoops(cv[1]) # {}
        /\ Least(SelfLoops(cv[1])) < Least(OutOfRange(cv[1]))
        /\ Least(SelfLoops(cv[1])) \notin OutOfRange(cv[1])
        /\ cv[2].message.kind = "Invalid index in contact"

\* C6 as stated: a contact (i, i) at a disk i makes the graph invalid with the
\* message 'Self-loop detected at vertex i' for the first self-loop in list order
C6_AsStated ==
    \A cv \in GraphChecks :
        LET loops == SelfLoops(cv[1]) \ OutOfRange(cv[1])
        IN  loops # {}
                => /\ ~cv[2].isValid
                   /\ cv[2].message
                          = Message("Self-loop detected at vertex",
                                    AllContacts(cv[1])[Least(loops)][1], 0, 0)

\* C6 amended: a contact (i, i) makes the graph invalid; when every contact
\* index is in range the message is 'Self-loop detected at vertex i' for the
\* first self-loop in list order (contacts before latticeContacts), and when
\* some index is out of range the message is the index error instead
C6_SelfLoop ==
    \A cv \in GraphChecks :
        SelfLoops(cv[1]) # {}
            => /\ ~cv[2].isValid
               /\ InRange(cv[1])
                      => cv[2].message
                             = Message("Self-loop detected at vertex",
                                       AllContacts(cv[1])[Least(SelfLoops(cv[1]))][1], 0, 0)
               /\ ~InRange(cv[1]) => cv[2].message.kind = "Invalid index in contact"

\* two self-loops at different disks, in range: the first in list order is named
C6_Witness ==
    \E cv \in GraphChecks :
        /\ InRange(cv[1])
        /\ \E j, k \in SelfLoops(cv[1]) :
               /\ j < k
               /\ AllContacts(cv[1])[j][1] # AllContacts(cv[1])[k][1]
        /\ cv[2].message.kind = "Self-loop detected at vertex"
        /\ cv[2].message.a = AllContacts(cv[1])[Least(SelfLoops(cv[1]))][1]

\* C7: for a graph that passes the index, self-loop and duplicate checks the
\* result is 'Graph is not connected' exactly when some disk of 0..n-1 cannot
\* be reached from disk 0 along contacts; so two or more disks without a
\* contact are not connected, and a single disk is
C7_Connectivity ==
    \A cv \in GraphChecks :
        (OutOfRange(cv[1]) = {} /\ SelfLoops(cv[1]) = {} /\ Repeats(cv[1]) = {})
            => /\ (~cv[2].isValid /\ cv[2].message.kind = "Graph is not connected")
                       <=> (\E i \in 0..(cv[1].n - 1) : i \notin Reachable(cv[1]))
               /\ (cv[1].n >= 2 /\ AllContacts(cv[1]) = <<>>)
                       => cv[2].message.kind = "Graph is not connected"
               /\ cv[1].n = 1 => cv[2].message.kind # "Graph is not connected"

\* three or more disks with contacts, one of them cut off from disk 0
C7_Witness ==
    \E cv \in GraphChecks :
        /\ OutOfRange(cv[1]) = {} /\ SelfLoops(cv[1]) = {} /\ Repeats(cv[1]) = {}
        /\ cv[1].n >= 3 /\ Len(AllContacts(cv[1])) >= 1
        /\ Cardinality(Reachable(cv[1])) >= 2
        /\ Unreachable(cv[1]) # {}
        /\ cv[2].message.kind = "Graph is not connected"

\* C8: a graph that passes all five checks reports expectedEdges = 2n + 1 and
\* isValid = true whatever its number of edges; only the message tells
\* whether the number of edges equals 2n + 1
C8_EdgeCountInformational ==
    \A cv \in GraphChecks :
        PassesAllChecks(cv[1])
            => /\ cv[2].isValid
               /\ cv[2].expectedEdges = 2 * cv[1].n + 1
               /\ cv[2].actualEdges = Len(cv[1].contacts) + Len(cv[1].latticeContacts)
               /\ cv[2].message.kind = "Valid graph with expected edge count"
                      <=> cv[2].actualEdges = 2 * cv[1].n + 1
               /\ cv[2].message.kind = "Valid graph (edges, expected for rigidity)"
                      <=> cv[2].actualEdges # 2 * cv[1].n + 1
               /\ cv[2].actualEdges # 2 * cv[1].n + 1
                      => cv[2].message.a = cv[2].actualEdges
                         /\ cv[2].message.b = 2 * cv[1].n + 1

\* a valid graph with exactly 2n + 1 edges
C8_Witness ==
    \E cv \in GraphChecks :
        /\ PassesAllChecks(cv[1])
        /\ Len(AllContacts(cv[1])) = 2 * cv[1].n + 1
        /\ cv[2].isValid
        /\ cv[2].message.kind = "Valid graph with expected edge count"

----------------------------------------------------------------------------
(* Claims about the Hessian engine                                           *)

\* C1: in every HessianResult indexMorseCritical is the number of eigenvalues
\* strictly below -1e-6, an eigenvalue equal to -1e-6 not being counted, and
\* isLocalMinimum holds exactly when indexMorseCritical = 0
C1_MorseIndex ==
    \A h \in HessianResults :
        /\ h.indexMorseCritical
               = Cardinality({k \in 1..Len(h.eigenvalues) :
                                 h.eigenvalues[k] + NegativeTolerance < 0})
        /\ h.isLocalMinimum <=> h.indexMorseCritical = 0

\* a spectrum whose only negative eigenvalue is -1e-6 itself: a local minimum
C1_Witness ==
    \E h \in HessianResults :
        /\ \E k \in 1..Len(h.eigenvalues) : h.eigenvalues[k] = -NegativeTolerance
        /\ \E k \in 1..Len(h.eigenvalues) : h.eigenvalues[k] > 0
        /\ h.indexMorseCritical = 0
        /\ h.isLocalMinimum

\* C2: computeHessian on a rolling matrix that is empty or has rows without
\* columns returns hessian = [], eigenvalues = [], eigenvectors = [],
\* isLocalMinimum = true, indexMorseCritical = 0 without assembling anything;
\* so an analysis whose constraints.dimension is 0 reports a local minimum of
\* Morse index 0
C2_TrivialHessian ==
    /\ (ret # None /\ ret[1].fn = "computeHessian"
            /\ (ret[1].R = <<>> \/ \A row \in 1..Len(ret[1].R) : ret[1].R[row] = <<>>))
           => /\ ~ret[1].out.threw
              /\ ret[1].out.value
                     = [hessian |-> <<>>, eigenvalues |-> <<>>, eigenvectors |-> <<>>,
                        isLocalMinimum |-> TRUE, indexMorseCritical |-> 0]
    /\ (pc \in {"hessian", "summary", "done"} /\ constraints[1].dimension = 0)
           => /\ pc # "hessian" => /\ hessian # None
                                   /\ hessian[1].isLocalMinimum
                                   /\ hessian[1].indexMorseCritical = 0
              /\ pc = "done" => /\ summary # None
                                /\ error = None

\* an analysis of two or more disks that ended with rolling dimension 0
C2_Witness ==
    /\ pc = "done"
    /\ config[1].n >= 2
    /\ constraints[1].dimension = 0
    /\ hessian[1].isLocalMinimum
    /\ hessian[1].indexMorseCritical = 0

----------------------------------------------------------------------------
(* Claims about the contact Jacobian                                         *)

\* the direction of row k of A as read at the columns of the second disk
RowDirection(c, A, k) == <<A[k][2 * c.contacts[k][2] + 1], A[k][2 * c.contacts[k][2] + 2]>>

\* C9: buildContactMatrix returns one row per contact of config.contacts, in
\* contact order and of length 2n; the row of contact (i, j) has -u at columns
\* (2i, 2i+1), +u at columns (2j, 2j+1), u the unit vector from center i to
\* center j, and 0 elsewhere; lattice contacts add no row
C9_ContactRows ==
    \A cA \in Jacobians :
        LET c == cA[1]
            A == cA[2]
        IN  /\ Len(A) = Len(c.contacts)
            /\ \A k \in 1..Len(A) :
                   LET i == c.contacts[k][1]
                       j == c.contacts[k][2]
                       dx == c.positions[j + 1][1] - c.positions[i + 1][1]
                       dy == c.positions[j + 1][2] - c.positions[i + 1][2]
                       u == RowDirection(c, A, k)
                   IN  /\ Len(A[k]) = 2 * c.n
                       /\ A[k][2 * i + 1] = -u[1]
                       /\ A[k][2 * i + 2] = -u[2]
                       /\ \A col \in 1..(2 * c.n) :
                              col \notin {2 * i + 1, 2 * i + 2, 2 * j + 1, 2 * j + 2}
                                  => A[k][col] = 0
                       \* u points from i to j
                       /\ u[1] * dx + u[2] * dy > 0
                       /\ Abs(u[1] * dy - u[2] * dx) <= Abs(dx) + Abs(dy)
                       \* u has length 1, to the rounding of its two components
                       /\ Abs(u[1] * u[1] + u[2] * u[2] - Scale * Scale) <= 2 * Scale

\* two rows, the second the reverse of the first along a slanted direction,
\* and a lattice contact that adds none
C9_Witness ==
    \E cA \in Jacobians :
        /\ Len(cA[2]) = 2
        /\ cA[1].latticeContacts # <<>>
        /\ cA[1].contacts[1][1] = cA[1].contacts[2][2]
        /\ cA[1].contacts[1][2] = cA[1].contacts[2][1]
        /\ RowDirection(cA[1], cA[2], 1)[1] # 0
        /\ RowDirection(cA[1], cA[2], 1)[2] # 0
        /\ RowDirection(cA[1], cA[2], 2)[1] = -RowDirection(cA[1], cA[2], 1)[1]

----------------------------------------------------------------------------
(* Claims about errors in the pipeline                                       *)

\* the contacts of config.contacts between two disks at the same center
CoincidentContacts(c) ==
    {k \in 1..Len(c.contacts) :
        /\ c.contacts[k][1] \in 0..(c.n - 1)
        /\ c.contacts[k][2] \in 0..(c.n - 1)
        /\ c.positions[c.contacts[k][1] + 1] = c.positions[c.contacts[k][2] + 1]}

\* analyzeConfiguration has left Step 2, by a return or by an exception
PastConstraints == pc \in {"perimeter", "hessian", "summary", "done", "threw"}

\* C5: a configuration that fails a graph check is analysed without an
\* exception: analyzeConfiguration returns a result whose
\* graphValidation.isValid is false.  Configurations with a contact between
\* coincident centers, whose analysis is meant to abort, are left aside.
C5_FailuresAreData ==
    (PastConstraints /\ ~PassesAllChecks(config[1]) /\ CoincidentContacts(config[1]) = {})
        => /\ pc # "threw"
           /\ error = None
           /\ graphValidation[1].isValid = FALSE

\* C10: when a contact joins two disks with coincident centers the analysis
\* ends with the geometry error that names the two disks of such a contact,
\* no result is produced, and the catalog cache is left as it was
C10_CoincidentCenters ==
    (PastConstraints /\ CoincidentContacts(config[1]) # {})
        => /\ pc = "threw"
           /\ constraints = None /\ hessian = None /\ summary = None
           /\ \E k \in CoincidentContacts(config[1]) :
                  error = Some(CoincidentCenters(config[1].contacts[k][1],
                                                 config[1].contacts[k][2]))

----------------------------------------------------------------------------
(* Claims about the rolling space                                            *)

NullPositions(eigenvalues) ==
    {k \in 1..Len(eigenvalues) :
        eigenvalues[k] < SpectrumTolerance /\ -eigenvalues[k] < SpectrumTolerance}

\* the k-th smallest element of a set of numbers
NthOf(S, k) == CHOOSE x \in S : Cardinality({y \in S : y < x}) = k - 1

\* Z has `cols` rows and one column per null eigenvalue, taken from the
\* eigenvector of that eigenvalue, in the order of the eigenvalues
IsNullBasis(Z, cols, eigenvalues) ==
    /\ Len(Z) = cols
    /\ \A row \in 1..cols :
           /\ Len(Z[row]) = Cardinality(NullPositions(eigenvalues))
           /\ \A k \in 1..Len(Z[row]) :
                  Z[row][k] = V(row - 1, NthOf(NullPositions(eigenvalues), k) - 1)

\* C12: with at least one contact the rolling matrix has 2n rows and one column
\* for each eigenvalue of A^T A of magnitude below 1e-10, taken from the
\* matching eigenvector, and constraints.dimension is the number of these
\* columns; with no such eigenvalue the rows have no column and dimension = 0
C12_RollingSpace ==
    /\ (ret # None /\ ret[1].fn = "computeConstraints" /\ ~ret[1].out.threw
            /\ Len(ret[1].config.contacts) >= 1)
           => /\ lib.atA # None
              /\ IsNullBasis(ret[1].out.value.rollingMatrix, 2 * ret[1].config.n,
                             lib.atA[1])
              /\ ret[1].out.value.dimension = Cardinality(NullPositions(lib.atA[1]))
    /\ (ret # None /\ ret[1].fn = "rollingSpaceBasis" /\ ret[1].R # <<>>)
           => /\ IsNullBasis(ret[1].out.value, Len(ret[1].R[1]), lib.atA[1])
              /\ NullPositions(lib.atA[1]) = {}
                     => \A row \in 1..Len(ret[1].out.value) : ret[1].out.value[row] = <<>>

\* constraints of a configuration with contacts whose A^T A has an eigenvalue
\* below the tolerance outside the kernel, and one equal to the tolerance,
\* which is not counted
C12_Witness ==
    /\ ret # None
    /\ ret[1].fn = "computeConstraints"
    /\ ~ret[1].out.threw
    /\ Len(ret[1].config.contacts) >= 1
    /\ \E k \in 1..Len(lib.atA[1]) : lib.atA[1][k] = SpectrumTolerance
    /\ \E k \in 1..Len(lib.atA[1]) : lib.atA[1][k] = 5
    /\ ret[1].out.value.dimension = Cardinality(NullPositions(lib.atA[1]))
    /\ ret[1].out.value.dimension < 2 * ret[1].config.n

\* C13: every entry of A Z is within 1e-8 of zero: the squared length of each
\* of its columns, in units of 1e-11, is at most 1e-5 times the number of rows
C13_NullSpaceProperty ==
    (constraints # None /\ lib.atA # None)
        => \A k \in 1..constraints[1].dimension :
               ResidualSq(lib.atA[1], NthOf(NullPositions(lib.atA[1]), k) - 1) * 100000
                   <= Len(constraints[1].contactMatrix)

\* C19: the analysis of three unit disks at the corners of an equilateral
\* triangle with their three contacts reports rolling dimension 0, Morse index
\* 0, a local minimum, and the perimeter 6 + 2 pi (to the rounding of the
\* three edge lengths)
C19_Triangle ==
    (pc = "done" /\ config[1] = Catalog["D3-1"])
        => /\ constraints[1].dimension = 0
           /\ hessian[1].indexMorseCritical = 0
           /\ hessian[1].isLocalMinimum
           /\ Abs(perimeter[1].perimeter - (6 * Scale + TwoPi)) <= 3

----------------------------------------------------------------------------
(* Claims about the perimeter                                                *)

\* the point of input index i (0-based)
At(points, i) == points[i + 1]

\* the hull entry after position k, around the cycle
After(hull, k) == hull[(k % Len(hull)) + 1]

\* q lies on the closed segment from a to b
OnSegment(a, b, q) ==
    /\ cross(a, b, q) = 0
    /\ (q[1] - a[1]) * (q[1] - b[1]) <= 0
    /\ (q[2] - a[2]) * (q[2] - b[2]) <= 0

\* hull lists input indices, none twice
HullIndices(points, hull) ==
    /\ \A k \in 1..Len(hull) : hull[k] \in 0..(Len(points) - 1)
    /\ \A j, k \in 1..Len(hull) : j # k => hull[j] # hull[k]

\* no input point is to the right of an edge of the cycle: the cycle turns
\* counter-clockwise and its polygon contains every input point
HullContainsLeft(points, hull) ==
    \A k \in 1..Len(hull) : \A q \in 1..Len(points) :
        cross(At(points, hull[k]), At(points, After(hull, k)), points[q]) >= 0

\* every input point on an edge of the cycle is listed
HullKeepsBoundary(points, hull) ==
    \A q \in 1..Len(points) :
        (\E k \in 1..Len(hull) :
            OnSegment(At(points, hull[k]), At(points, After(hull, k)), points[q]))
            => (q - 1) \in Range(hull)

\* C14: convexHullIndices returns indices of the input, each at most once, in
\* counter-clockwise order, the polygon of the returned points contains every
\* input point, and the input points on a hull edge are retained
C14_ConvexHull ==
    (ret # None /\ ret[1].fn = "convexHullIndices")
        => /\ HullIndices(ret[1].config.positions, ret[1].out.value)
           /\ HullContainsLeft(ret[1].config.positions, ret[1].out.value)
           /\ HullKeepsBoundary(ret[1].config.positions, ret[1].out.value)

\* every three of the points are on one line
Collinear(points) ==
    \A i, j, k \in 1..Len(points) : cross(points[i], points[j], points[k]) = 0

\* the largest squared distance between two of the points
MaxDistSq(points) ==
    LET all == {DistSq(points[i], points[j]) : i, j \in 1..Len(points)}
    IN  CHOOSE d \in all : \A e \in all : e <= d

\* C15: when the centers are collinear (always so for fewer than 3 disks)
\* isCollinear returns true and perimeterOfCenters is twice the largest
\* distance between two centers, 0 for a single disk
C15_CollinearPerimeter ==
    /\ (ret # None /\ ret[1].fn = "isCollinear" /\ Collinear(ret[1].config.positions))
           => ret[1].out.value = TRUE
    /\ (ret # None /\ ret[1].fn = "perimeterOfCenters"
            /\ Collinear(ret[1].config.positions))
           => /\ ret[1].out.value = 2 * Sqrt(MaxDistSq(ret[1].config.positions))
              /\ ret[1].config.n = 1 => ret[1].out.value = 0

\* three centers in a row, the middle one listed last: the farthest pair are
\* the first two
C15_Witness ==
    /\ ret # None
    /\ ret[1].fn = "perimeterOfCenters"
    /\ ret[1].config.positions = <<<<-1000, 0>>, <<1000, 0>>, <<0, 0>>>>
    /\ ret[1].out.value = 4000

\* the unit vector from p to q, in fixed point
UnitVector(p, q) ==
    <<RoundDiv((q[1] - p[1]) * Scale, Sqrt(DistSq(p, q))),
      RoundDiv((q[2] - p[2]) * Scale, Sqrt(DistSq(p, q)))>>

\* grad is -2u at disk a, +2u at disk b and zero at every other disk
EndpointGradient(points, grad, a, b) ==
    LET u == UnitVector(At(points, a), At(points, b))
    IN  /\ Len(grad) = 2 * Len(points)
        /\ grad[2 * a + 1] = -2 * u[1] /\ grad[2 * a + 2] = -2 * u[2]
        /\ grad[2 * b + 1] = 2 * u[1] /\ grad[2 * b + 2] = 2 * u[2]
        /\ \A d \in 0..(Len(points) - 1) :
               d \notin {a, b} => grad[2 * d + 1] = 0 /\ grad[2 * d + 2] = 0

TwoDisks == <<<<-1000, 0>>, <<1000, 0>>>>

\* C16: for collinear centers, two of them distinct, perimeterGradient is -2u
\* at one end a of the segment, +2u at the other end b, with u the unit vector
\* from a to b, and zero elsewhere; for unit disks at (-1,0) and (1,0) the hull
\* is both points, they are collinear, the perimeter is 4 + 2 pi and the
\* gradient is (-2, 0, 2, 0)
C16_CollinearGradient ==
    /\ (ret # None /\ ret[1].fn = "computePerimeter"
            /\ Collinear(ret[1].config.positions)
            /\ MaxDistSq(ret[1].config.positions) > 0)
           => \E a, b \in 0..(ret[1].config.n - 1) :
                 /\ DistSq(At(ret[1].config.positions, a), At(ret[1].config.positions, b))
                        = MaxDistSq(ret[1].config.positions)
                 /\ EndpointGradient(ret[1].config.positions,
                                     ret[1].out.value.gradient, a, b)
    /\ (ret # None /\ ret[1].config # None /\ ret[1].config.positions = TwoDisks)
           => /\ ret[1].fn = "convexHullIndices" => ret[1].out.value = <<0, 1>>
              /\ ret[1].fn = "isCollinear" => ret[1].out.value = TRUE
              /\ ret[1].fn = "computePerimeter"
                     => /\ ret[1].out.value.perimeter = 4 * Scale + TwoPi
                        /\ ret[1].out.value.gradient = <<-2000, 0, 2000, 0>>

\* the perimeter and the gradient of the two disks of the example
C16_Witness ==
    /\ ret # None
    /\ ret[1].fn = "computePerimeter"
    /\ ret[1].config.positions = TwoDisks
    /\ ret[1].out.value.gradient = <<-2000, 0, 2000, 0>>

RECURSIVE EdgeSum(_, _, _, _, _)
\* over the edges hull[k] -> After(hull, k) of non-zero length: the sum of
\* component comp of the unit direction, added where the edge ends at disk d
\* and subtracted where it starts at d
EdgeSum(points, hull, k, d, comp) ==
    IF k > Len(hull) THEN 0
    ELSE LET i == hull[k]
             j == After(hull, k)
             u == IF At(points, i) = At(points, j) THEN <<0, 0>>
                  ELSE UnitVector(At(points, i), At(points, j))
         IN  (IF j = d THEN u[comp] ELSE 0) - (IF i = d THEN u[comp] ELSE 0)
                 + EdgeSum(points, hull, k + 1, d, comp)

\* C17: for centers that are not collinear perimeterGradient has length 2n, is
\* zero at the disks outside the hull, gets -u at disk i and +u at disk j for
\* each edge i -> j of the hull cycle with unit direction u, and its x and its
\* y components each sum to zero; a single disk has centers-perimeter 0 and the
\* zero gradient
C17_HullGradient ==
    /\ (ret # None /\ ret[1].fn = "computePerimeter"
            /\ ~Collinear(ret[1].config.positions))
           => LET points == ret[1].config.positions
                  hull == convexHullIndices(points)
                  grad == ret[1].out.value.gradient
              IN  /\ Len(grad) = 2 * ret[1].config.n
                  /\ \A d \in 0..(ret[1].config.n - 1) :
                         /\ d \notin Range(hull)
                                => grad[2 * d + 1] = 0 /\ grad[2 * d + 2] = 0
                         /\ grad[2 * d + 1] = EdgeSum(points, hull, 1, d, 1)
                         /\ grad[2 * d + 2] = EdgeSum(points, hull, 1, d, 2)
                  /\ SumEvery(grad, 1) = 0
                  /\ SumEvery(grad, 2) = 0
    /\ (ret # None /\ ret[1].config # None /\ ret[1].config.n = 1)
           => /\ ret[1].fn = "perimeterOfCenters" => ret[1].out = Returned(0)
              /\ ret[1].fn = "computePerimeter"
                     => ret[1].out = Returned([perimeter |-> TwoPi, gradient |-> <<0, 0>>])

\* a triangle of centers with a fourth center inside it
C17_Witness ==
    /\ ret # None
    /\ ret[1].fn = "computePerimeter"
    /\ ret[1].config.positions = <<<<-1000, 0>>, <<0, 1000>>, <<1000, 0>>, <<0, 2000>>>>
    /\ ret[1].out.value.gradient[3] = 0
    /\ ret[1].out.value.gradient[4] = 0
    /\ ret[1].out.value.gradient[1] # 0

----------------------------------------------------------------------------
(* Claims about the spectrum                                                 *)

\* an eigenvalue of the library after the snap of the noise to 0
Snapped(v) == IF v < SpectrumTolerance /\ -v < SpectrumTolerance THEN 0 ELSE v

\* out lists the snapped eigenvalues of raw in ascending order
SortedSpectrum(raw, out, sigma) ==
    /\ Len(out.eigenvalues) = Len(raw)
    /\ Len(out.eigenvectors) = Len(raw)
    /\ Ascending(out.eigenvalues)
    /\ \A j, k \in 1..Len(raw) : j # k => sigma[j] # sigma[k]
    /\ \A k \in 1..Len(raw) : out.eigenvalues[k] = Snapped(raw[sigma[k]])

----------------------------------------------------------------------------
(* Claims about repeated analyses                                            *)

----------------------------------------------------------------------------
(* Claims about configurations and the catalog                               *)

\* the data-model invariant of a Configuration
DataModelInvariant(c) ==
    /\ c.n = Len(c.positions)
    /\ Len(c.radii) = c.n
    /\ \A k \in 1..c.n : c.radii[k] > 0 /\ c.radii[k] = c.radii[1]
    /\ \A k \in 1..Len(c.contacts) :
           /\ c.contacts[k][1] \in 0..(c.n - 1)
           /\ c.contacts[k][2] \in 0..(c.n - 1)
           /\ c.contacts[k][1] # c.contacts[k][2]
    /\ \A j, k \in 1..Len(c.contacts) :
           j # k => {c.contacts[j][1], c.contacts[j][2]}
                        # {c.contacts[k][1], c.contacts[k][2]}

\* C21: every Configuration returned by createConfiguration, and every entry
\* read from the catalog, has its contact indices in [0, n), no self-loop, no
\* undirected pair twice, n positions and n equal positive radii
C21_DataModel ==
    /\ (ret # None /\ ret[1].fn = "createConfiguration")
           => DataModelInvariant(ret[1].out.value)
    /\ (ret # None /\ ret[1].fn = "loadConfiguration" /\ ~ret[1].out.threw)
           => DataModelInvariant(ret[1].out.value)

CatalogFunctions ==
    {"loadAllConfigurations", "loadConfiguration", "listConfigurationNames",
     "listConfigurationsBySize", "getCatalogStats"}

\* what a catalog call returned is read from the map `catalog`
ReadFrom(catalog, call) ==
    /\ call.fn = "loadAllConfigurations" => call.out.value = catalog
    /\ (call.fn = "loadConfiguration" /\ ~call.out.threw)
           => call.config \in DOMAIN catalog /\ call.out.value = catalog[call.config]
    /\ (call.fn = "loadConfiguration" /\ call.out.threw)
           => call.config \notin DOMAIN catalog
    /\ call.fn = "listConfigurationNames" => Range(call.out.value) = DOMAIN catalog
    /\ call.fn = "listConfigurationsBySize"
           => Range(call.out.value) = {name \in DOMAIN catalog : NameSize[name] = call.config}
    /\ call.fn = "getCatalogStats" => call.out.value.total = Cardinality(DOMAIN catalog)

\* C22: once the cache is built no call replaces it or changes an entry of
\* it, and every later call of loadAllConfigurations, loadConfiguration,
\* listConfigurationNames, listConfigurationsBySize or getCatalogStats returns
\* data of that same map
C22_CacheReadOnly ==
    [][catalogCache # None
           => /\ catalogCache' = catalogCache
              /\ (ret' # None /\ ret' # ret /\ ret'[1].fn \in CatalogFunctions)
                     => /\ ret'[1].R = catalogCache
                        /\ ReadFrom(catalogCache[1], ret'[1])]_vars

\* a list by size returned by a call that found the cache already built
C22_Witness ==
    /\ ret # None
    /\ ret[1].fn = "listConfigurationsBySize"
    /\ ret[1].R # None
    /\ ret[1].R = catalogCache
    /\ ret[1].out.value = <<"D3-1", "D3-2">>

\* C23: loadConfiguration(name) returns the catalog's Configuration when name
\* is a key of the catalog, and otherwise throws an Error that carries the
\* requested name and all the available names; the catalog the call found is
\* the catalog it leaves
C23_Lookup ==
    (ret # None /\ ret[1].fn = "loadConfiguration")
        => /\ ret[1].config \in DOMAIN Catalog => ret[1].out = Returned(Catalog[ret[1].config])
           /\ ret[1].config \notin DOMAIN Catalog
                  => /\ ret[1].out.threw
                     /\ ret[1].out.error.name = ret[1].config
                     /\ Range(ret[1].out.error.available) = DOMAIN Catalog
           /\ catalogCache = Some(Catalog)
           /\ ret[1].R # None => ret[1].R = catalogCache

\* a failed lookup on a catalog that was already loaded
C23_Witness ==
    /\ ret # None
    /\ ret[1].fn = "loadConfiguration"
    /\ ret[1].config = "D3-3"
    /\ ret[1].R = Some(Catalog)
    /\ ret[1].out.threw
    /\ ret[1].out.error = NotFound("D3-3", <<"D3-1", "D3-2">>)
    /\ catalogCache = Some(Catalog)

----------------------------------------------------------------------------
(* Claims about the stages of analyzeConfiguration                           *)

\* C24: analyzeConfiguration goes through graph validation, constraints,
\* perimeter, Hessian and summary in this order, whatever the validation
\* reports; the Hessian is computed from the rolling matrix of the constraints
\* of the same call, and the summary last, from the four earlier outputs
C24_StageOrder ==
    [][/\ pc = "idle" => pc' \in {"idle", "validate"}
       /\ pc = "validate"
              => /\ pc' = "constraints"
                 /\ graphValidation' = Some(checkGraphValidity(config[1]))
                 /\ constraints' = None /\ perimeter' = None
                 /\ hessian' = None /\ summary' = None
       /\ pc = "constraints"
              => /\ pc' \in {"perimeter", "threw"}
                 /\ pc' = "perimeter" => constraints' # None
                 /\ graphValidation' = graphValidation
                 /\ perimeter' = None /\ hessian' = None /\ summary' = None
       /\ pc = "perimeter"
              => /\ pc' = "hessian"
                 /\ perimeter' = Some(computePerimeter(config[1]))
                 /\ graphValidation' = graphValidation /\ constraints' = constraints
                 /\ hessian' = None /\ summary' = None
       /\ pc = "hessian"
              => /\ pc' \in {"summary", "threw"}
                 /\ pc' = "summary"
                        => hessian' = Some(computeHessian(
                                               config[1], constraints[1].rollingMatrix,
                                               IF lib'.hRoll = None THEN <<>>
                                               ELSE lib'.hRoll[1]).value)
                 /\ graphValidation' = graphValidation /\ constraints' = constraints
                 /\ perimeter' = perimeter /\ summary' = None
       /\ pc = "summary"
              => /\ pc' = "done"
                 /\ summary' = Some(generateSummary(
                                        config[1], graphValidation[1], constraints[1],
                                        perimeter[1], hessian[1],
                                        IF lib'.small = None THEN TRUE ELSE lib'.small[1]))
                 /\ graphValidation' = graphValidation /\ constraints' = constraints
                 /\ perimeter' = perimeter /\ hessian' = hessian
       /\ pc \in {"done", "threw"} => pc' = "idle"]_vars

\* a call that went through every stage on a graph reported invalid
C24_Witness ==
    /\ pc = "done"
    /\ ~graphValidation[1].isValid
    /\ constraints # None /\ perimeter # None /\ hessian # None /\ summary # None
    /\ hessian[1].eigenvalues # <<>>

\* C28: no stage changes the Configuration it is given: from the entry of
\* analyzeConfiguration to its return or its throw the configuration, and the
\* catalog cache that may share it, stay as they were, and the configuration
\* of the result is that input
C28_ConfigurationUntouched ==
    [][/\ (pc # "idle" /\ pc' # "idle") => config' = config
       /\ pc # "idle" => catalogCache' = catalogCache
       /\ pc' = "done"
              => /\ Result'.configuration = config[1]
                 /\ catalogCache # None => \A name \in DOMAIN Catalog :
                                              catalogCache'[1][name] = Catalog[name]]_vars

\* the analysis of an entry of the loaded catalog has returned
C28_Witness ==
    /\ pc = "done"
    /\ catalogCache = Some(Catalog)
    /\ config[1] = Catalog["D3-1"]
    /\ Result.configuration = Catalog["D3-1"]

----------------------------------------------------------------------------
(* Claims about the ambient Hessian                                          *)

\* entry (r, s) of the 2 x 2 block of disks a, b of H
BlockEntry(H, a, b, r, s) == H[2 * a + r][2 * b + s]

\* what an edge or contact between disks u and v with block M contributes to
\* entry (r, s) of the block of disks a, b
Contribution(M, u, v, a, b, r, s) ==
    IF a = b /\ a \in {u, v} THEN M[r][s]
    ELSE IF a # b /\ {a, b} = {u, v} THEN -M[r][s]
    ELSE 0

\* the hull edges of positive length, each with its block M
HullEdges(c) ==
    LET hull == convexHullIndices(c.positions)
    IN  {<<k, hull[k], hull[(k % Len(hull)) + 1]>> : k \in 1..Len(hull)}

RECURSIVE SumOver(_, _, _, _, _, _)
\* the sum of the contributions of the edges <<k, u, v, M>> of a finite set
SumOver(edges, a, b, r, s, total) ==
    IF edges = {} THEN total
    ELSE LET e == CHOOSE x \in edges : TRUE
         IN  SumOver(edges \ {e}, a, b, r, s,
                     total + Contribution(e[4], e[2], e[3], a, b, r, s))

\* the hull edges of positive length with their blocks
HullBlocks(c) ==
    {<<e[1], e[2], e[3], EdgeBlock(c.positions[e[2] + 1], c.positions[e[3] + 1],
                                   DistSq(c.positions[e[2] + 1], c.positions[e[3] + 1]))>>
        : e \in {x \in HullEdges(c) :
                    DistSq(c.positions[x[2] + 1], c.positions[x[3] + 1]) # 0}}

\* the contacts with their blocks -(lambda/2)(I - u u^T)
ContactBlocks(c, lambdas) ==
    {LET p == c.positions[c.contacts[k][1] + 1]
         q == c.positions[c.contacts[k][2] + 1]
         dist == Sqrt(DistSq(p, q))
     IN  <<k, c.contacts[k][1], c.contacts[k][2],
           ContactBlock(RoundDiv((q[1] - p[1]) * Scale, dist),
                        RoundDiv((q[2] - p[2]) * Scale, dist), lambdas[k])>>
        : k \in 1..Len(c.contacts)}

\* H is a symmetric dim x dim matrix in which the blocks of every block row
\* add up to the zero block
SymmetricZeroSum(H, n) ==
    /\ Len(H) = 2 * n
    /\ \A i \in 1..(2 * n) : Len(H[i]) = 2 * n
    /\ \A i, j \in 1..(2 * n) : H[i][j] = H[j][i]
    /\ \A i \in 1..(2 * n) : \A s \in 1..2 :
          SumEvery(H[i], s) = 0

\* the pair of extremal points of a collinear configuration: the two ends of
\* the segment that carries every center
Extremal(c, a, b) ==
    /\ a # b
    /\ \A k \in 1..c.n :
          DistSq(c.positions[k], c.positions[a + 1])
              <= DistSq(c.positions[a + 1], c.positions[b + 1])
    /\ \A k \in 1..c.n :
          DistSq(c.positions[k], c.positions[b + 1])
              <= DistSq(c.positions[a + 1], c.positions[b + 1])

\* C25: the ambient Hessian is assembled blockwise.  Off the collinear case
\* H_E is the sum over the hull edges (u, v) of M at (u, u) and (v, v) and of
\* -M at (u, v) and (v, u); H_G is the same sum over the contacts with the
\* block -(lambda/2)(I - u u^T); H = H_E + H_G.  On collinear centers H_E is
\* one doubled block between the two extremal points and zero at every other
\* disk.  The three matrices are symmetric, 2n x 2n, with block rows summing
\* to zero
C25_AmbientHessian ==
    (ret # None /\ ret[1].fn = "ambientHessian" /\ ~ret[1].out.threw)
        => LET c == ret[1].config
               out == ret[1].out.value
               disks == 0..(c.n - 1)
           IN  /\ SymmetricZeroSum(out.HEucl, c.n)
               /\ SymmetricZeroSum(out.HGeom, c.n)
               /\ SymmetricZeroSum(out.HTotal, c.n)
               /\ \A i, j \in 1..(2 * c.n) :
                     out.HTotal[i][j] = out.HEucl[i][j] + out.HGeom[i][j]
               /\ \A a, b \in disks : \A r, s \in 1..2 :
                     BlockEntry(out.HGeom, a, b, r, s)
                         = SumOver(ContactBlocks(c, out.lambdas), a, b, r, s, 0)
               /\ ~isCollinear(c.positions)
                     => \A a, b \in disks : \A r, s \in 1..2 :
                           BlockEntry(out.HEucl, a, b, r, s)
                               = SumOver(HullBlocks(c), a, b, r, s, 0)
               /\ (isCollinear(c.positions) /\ out.HEucl # ZeroMatrix(2 * c.n))
                     => \E a, b \in disks :
                           /\ Extremal(c, a, b)
                           /\ LET M == EdgeBlock(c.positions[a + 1], c.positions[b + 1],
                                                 DistSq(c.positions[a + 1],
                                                        c.positions[b + 1]))
                              IN  \A x, y \in disks : \A r, s \in 1..2 :
                                     BlockEntry(out.HEucl, x, y, r, s)
                                         = Contribution(ScaledBlock(M), a, b, x, y, r, s)
               /\ (isCollinear(c.positions) /\ out.HEucl = ZeroMatrix(2 * c.n))
                     => \A a, b \in 1..c.n : c.positions[a] = c.positions[b]

\* the Hessian of a triangle of centers with a chain of two contacts whose
\* multipliers are not zero
C25_Witness ==
    /\ ret # None /\ ret[1].fn = "ambientHessian" /\ ~ret[1].out.threw
    /\ ret[1].config.n = 3
    /\ ~isCollinear(ret[1].config.positions)
    /\ Len(convexHullIndices(ret[1].config.positions)) = 3
    /\ Len(ret[1].config.contacts) = 2
    /\ \A k \in 1..2 : ret[1].out.value.lambdas[k] # 0
    /\ ret[1].out.value.HGeom # ZeroMatrix(6)
    /\ ret[1].out.value.HTotal # ret[1].out.value.HEucl

\* the Hessian of three distinct collinear centers
C25_CollinearCase ==
    /\ ret # None /\ ret[1].fn = "ambientHessian" /\ ~ret[1].out.threw
    /\ ret[1].config.n = 3
    /\ isCollinear(ret[1].config.positions)
    /\ ret[1].out.value.HEucl # ZeroMatrix(6)

\* the columns of R that hold an entry that is not finite
BadColumns(R) ==
    {k \in 1..RollDim(R) : \E row \in 1..Len(R) : R[row][k] = NonFinite}

\* C26: an entry of H_roll that is not finite is replaced by 0 before the
\* eigen-decomposition; this does not end the call, the decomposition runs on
\* the validated matrix, and the hessian returned holds finite entries only
C26_NonFiniteClamped ==
    (ret # None /\ ret[1].fn = "computeHessian")
        => LET c == ret[1].config
               R == ret[1].R
               out == ret[1].out
               d == RollDim(R)
           IN  /\ out.threw => (d > 0 /\ buildContactMatrix(c).threw)
               /\ (~out.threw /\ d > 0)
                     => /\ Len(out.value.hessian) = d
                        /\ \A i, j \in 1..d :
                              /\ out.value.hessian[i][j] # NonFinite
                              /\ out.value.hessian[i][j]
                                    = IF i \in BadColumns(R) \/ j \in BadColumns(R)
                                      THEN Number(0) ELSE HRollEntry(i - 1, j - 1)
                        /\ Len(out.value.eigenvalues) = d
                        /\ Len(out.value.eigenvectors) = d

\* a call on a rolling matrix with one column that is not finite and one that
\* is: it returned, with zeros in the row and the column of the former
C26_Witness ==
    /\ ret # None /\ ret[1].fn = "computeHessian" /\ ~ret[1].out.threw
    /\ RollDim(ret[1].R) >= 2
    /\ BadColumns(ret[1].R) = {1}
    /\ ret[1].out.value.hessian[1][2] = Number(0)
    /\ ret[1].out.value.hessian[2][2] = HRollEntry(1, 1)
    /\ Len(ret[1].out.value.eigenvalues) = RollDim(ret[1].R)

----------------------------------------------------------------------------
(* Claims about the critical line and about useAnalysis                      *)

ErrorName(e) == IF e = NoNameProvided THEN "" ELSE e.name

\* C29: what the hook returns belongs to the most recent configName: the data
\* to an analysis of the configuration of that name, the error to that name,
\* a run that was superseded having written nothing
C29_MostRecentOnly ==
    hook.mounted
        => /\ hook.data # None => hook.data[1].configName = hook.configName[1]
           /\ hook.error # None => ErrorName(hook.error[1]) = hook.configName[1]

\* the same, for every configName but the missing one: no superseded run
\* writes, and a named run starts from cleared state
C29_NamedRuns ==
    (hook.mounted /\ hook.configName # Some(""))
        => /\ hook.data # None => hook.data[1].configName = hook.configName[1]
           /\ hook.error # None => ErrorName(hook.error[1]) = hook.configName[1]

\* C30: whenever loading is false, exactly one of data and error is not null
C30_ExactlyOne ==
    (hook.mounted /\ ~hook.loading) => ((hook.data # None) # (hook.error # None))

\* the same while the configName is a name
C30_NamedRuns ==
    (hook.mounted /\ ~hook.loading /\ hook.configName # Some(""))
        => ((hook.data # None) # (hook.error # None))


=============================================================================
